---- MODULE Spec2Model ----
(***************************************************************************)
(* Model of the colour-conversion core of negarity-color-visualizer:       *)
(* src/utils/colorConversion.ts, the ray-casting containment test of       *)
(* CIEBackground / Renderer2D and computeDependentGradient of the colour   *)
(* channel visualizer.                                                     *)
(*                                                                         *)
(* Numbers.  A JavaScript number is modelled as a fixed-point integer with *)
(* ONE units per 1.0 (six decimals).  Every multiplication and division    *)
(* rounds toward zero to a multiple of 1/ONE, the way every IEEE operation *)
(* rounds to a double; the non-finite results of a division by zero are    *)
(* the values INF, NEG_INF and NAN, outside the finite range.  Math.pow is *)
(* computed by integer roots and powers in the same fixed-point            *)
(* arithmetic.  Integer colour codes (0..255) are plain integers.          *)
(***************************************************************************)
EXTENDS Integers, Sequences, FiniteSets, TLC

VARIABLES
    op,        \* conversion core: name of the function called last
    args,      \* conversion core: its arguments
    ret,       \* conversion core: what it returned
    dz,        \* conversion core: TRUE iff the call evaluated a division by 0
    locals,    \* conversion core: the call's local variables (xyToRgb's r, g, b)
    polygon,   \* containment test: the vertex list passed (spectralLocus)
    point,     \* containment test: the point passed
    loopI,     \* containment test: loop index i (0-based)
    loopJ,     \* containment test: loop index j (0-based)
    inside,    \* containment test: let inside
    visited,   \* containment test: the edges <<j, i>> tested so far, in order
    toggled,   \* containment test: the edges <<j, i>> that toggled inside
    pdz,       \* containment test: TRUE iff a division by 0 was evaluated
    pc,        \* containment test: "idle", "loop" (in the for loop) or "done"
    gradientCall, \* computeDependentGradient: <<colorSpace, channelKey, values>>
    gradient,     \* computeDependentGradient: the value returned
    gradientPc,   \* computeDependentGradient: "idle" or "returned"
    heap,         \* calls in sequence: the arrays allocated so far
    valuesObject, \* calls in sequence: the values map the caller holds
    call,         \* calls in sequence: the call made last and its result
    earlier,      \* calls in sequence: an earlier call and its result
    visualizer,   \* ColorVisualizer: the object, its renderers, the last call
    prior,        \* ColorVisualizer: visualizer before the last call
    sliders,      \* channel sliders: value, commit timer and pending timers of each
    ccv,          \* ColorChannelVisualizer: values, rafId, pending frames, flags
    drag,         \* key of the slider whose thumb is being dragged, or ""
    event,        \* what the last step was and the callbacks it invoked
    sinceFlush,   \* the keys that committed since the last flush
    budget,       \* user-originated changes made so far
    renderer2D,   \* Renderer2D: config, currentPreset, components, layer nodes
    applied,      \* per component, the config its update method has applied
    r2Call        \* Renderer2D: the call made last and the layer before it

convVars == <<op, args, ret, dz, locals>>

pipVars == <<polygon, point, loopI, loopJ, inside, visited, toggled, pdz, pc>>

gradVars == <<gradientCall, gradient, gradientPc>>

heapVars == <<heap, valuesObject, call, earlier>>

vizVars == <<visualizer, prior>>

ccvVars == <<sliders, ccv, drag, event, sinceFlush, budget>>

r2Vars == <<renderer2D, applied, r2Call>>

vars == <<convVars, pipVars, gradVars, heapVars, vizVars, ccvVars, r2Vars>>

-----------------------------------------------------------------------------
(* Fixed-point arithmetic                                                  *)

ONE == 1000 * 1000

Abs(a) == IF a < 0 THEN -a ELSE a

Sgn(a) == IF a < 0 THEN -1 ELSE IF a > 0 THEN 1 ELSE 0

Max2(a, b) == IF a > b THEN a ELSE b

Min2(a, b) == IF a < b THEN a ELSE b

Max3(a, b, c) == Max2(a, Max2(b, c))

\* floor(a * b / 10^6) for a, b >= 0, computed on base-1000 limbs so that no
\* intermediate product leaves the 32-bit range.
MulShift6(a, b) ==
    LET a2 == a \div 1000000
        a1 == (a \div 1000) % 1000
        a0 == a % 1000
        b2 == b \div 1000000
        b1 == (b \div 1000) % 1000
        b0 == b % 1000
        p0 == a0 * b0
        p1 == a1 * b0 + a0 * b1
        p2 == a2 * b0 + a1 * b1 + a0 * b2
        p3 == a2 * b1 + a1 * b2
        p4 == a2 * b2
    IN  p4 * 1000000 + p3 * 1000 + p2 + ((p1 * 1000 + p0) \div 1000000)

\* a * b of two fixed-point numbers, rounded toward zero.
Mul(a, b) == Sgn(a) * Sgn(b) * MulShift6(Abs(a), Abs(b))

\* Long division: the quotient q and remainder r of (r0 + q0 * b) after n more
\* decimal digits.
RECURSIVE LongDiv(_, _, _, _)
LongDiv(q, r, b, n) ==
    IF n = 0 THEN q
    ELSE LongDiv(q * 10 + ((r * 10) \div b), (r * 10) % b, b, n - 1)

\* floor(a * 10^n / b) for a >= 0, b > 0.  A factor of ten of b is cancelled
\* against one of 10^n (the quotient is the same), which keeps the remainders
\* of the long division in the 32-bit range for divisors such as 255.0.
RECURSIVE DivDigits(_, _, _)
DivDigits(a, b, n) ==
    IF b % 10 = 0 /\ n > 0
    THEN DivDigits(a, b \div 10, n - 1)
    ELSE LongDiv(a \div b, a % b, b, n)

\* floor(a * 10^6 / b) for a >= 0, b > 0.
DivShift6(a, b) == DivDigits(a, b, 6)

\* The non-finite numbers.  Finite numbers of the model are below 2147.0 in
\* magnitude.
INF == 2147 * ONE

NEG_INF == -INF

NAN == INF + 1

IsFinite(a) == a > NEG_INF /\ a < INF

\* a / b of two finite fixed-point numbers, rounded toward zero; JavaScript's
\* non-finite results when b = 0.
Div(a, b) ==
    IF b = 0
    THEN IF a = 0 THEN NAN ELSE IF a > 0 THEN INF ELSE NEG_INF
    ELSE Sgn(a) * Sgn(b) * DivShift6(Abs(a), Abs(b))

\* Math.round of a fixed-point number: the nearest integer, halves upward.
Round(a) == (a + (ONE \div 2)) \div ONE

\* w^n for a fixed-point w >= 0 and an integer n >= 1.
RECURSIVE IPow(_, _)
IPow(w, n) ==
    IF n = 1 THEN w
    ELSE IF n % 2 = 0 THEN LET h == IPow(w, n \div 2) IN Mul(h, h)
    ELSE Mul(w, IPow(w, n - 1))

\* The largest w in lo..hi with w^n <= x (bisection; IPow is non-decreasing).
RECURSIVE RootSearch(_, _, _, _)
RootSearch(x, n, lo, hi) ==
    IF lo >= hi THEN lo
    ELSE LET mid == (lo + hi + 1) \div 2
         IN  IF IPow(mid, n) <= x
             THEN RootSearch(x, n, mid, hi)
             ELSE RootSearch(x, n, lo, mid - 1)

\* x^(1/n) for a fixed-point x >= 0.
Root(x, n) == RootSearch(x, n, 0, Max2(x, ONE))

\* Math.pow(x, num/den) for a fixed-point x >= 0.
Pow(x, num, den) == IPow(Root(x, den), num)

-----------------------------------------------------------------------------
(* src/utils/colorConversion.ts                                            *)

\* rgbToLinear, the inner linearize: the branch condition normalized > 0.04045,
\* in units of 1/ONE.
LINEARIZE_THRESHOLD == 40450

\* Mutant of linearizeUsesPower: the threshold of the inverse transfer function.
linearizeUsesPowerInverseThreshold(normalized) == normalized > 3130

linearizeUsesPower(normalized) == normalized > LINEARIZE_THRESHOLD

\* rgbToLinear, the inner linearize.
linearize(val) ==
    LET normalized == Div(val, 255 * ONE)
    IN  IF linearizeUsesPower(normalized)
        THEN Pow(Div(normalized + 55000, 1055000), 12, 5)
        ELSE Div(normalized, 12920000)

rgbToLinear(r, g, b) == <<linearize(r), linearize(g), linearize(b)>>

\* The sRGB to XYZ matrix (D65) of linearRgbToXyz, each coefficient * 10^7.
RGB_TO_XYZ ==
    << <<4124564, 3575761, 1804375>>,
       <<2126729, 7151522,  721750>>,
       << 193339, 1191920, 9503041>> >>

\* r * c for a coefficient c of seven decimals, in units of 10^-7 (one more
\* digit than a fixed-point number), rounded toward zero.
MulCoef7(a, c) == Sgn(a) * Sgn(c) * MulShift6(Abs(a), Abs(c))

\* Mutant of linearRgbToXyzRow: an offset is added (an affine map).
linearRgbToXyzRowOffset(r, g, b, row) ==
    (MulCoef7(r, row[1]) + MulCoef7(g, row[2]) + MulCoef7(b, row[3])) * 10 + ONE

\* One row of linearRgbToXyz: (r*m0 + g*m1 + b*m2) * 100.  The sum is kept in
\* units of 10^-7, so the factor 100 is a factor 10 in units of 1/ONE.
linearRgbToXyzRow(r, g, b, row) ==
    (MulCoef7(r, row[1]) + MulCoef7(g, row[2]) + MulCoef7(b, row[3])) * 10

linearRgbToXyz(r, g, b) ==
    << linearRgbToXyzRow(r, g, b, RGB_TO_XYZ[1]),
       linearRgbToXyzRow(r, g, b, RGB_TO_XYZ[2]),
       linearRgbToXyzRow(r, g, b, RGB_TO_XYZ[3]) >>

rgbToXyz(r, g, b) ==
    LET lin == rgbToLinear(r, g, b) IN linearRgbToXyz(lin[1], lin[2], lin[3])

\* Mutant of xyzToXyDegenerate: only the all-zero triple is degenerate.
xyzToXyDegenerateAllZero(x, y, z) == x = 0 /\ y = 0 /\ z = 0

\* The guard of xyzToXy: the sum of the three components is zero.

xyzToXyDegenerate(x, y, z) == x + y + z = 0

\* xyzToXy: the value returned and whether a division by zero was evaluated.
xyzToXy(x, y, z) ==
    LET sum == x + y + z
    IN  IF xyzToXyDegenerate(x, y, z)
        THEN [v |-> <<0, 0>>, dz |-> FALSE]
        ELSE [v |-> <<Div(x, sum), Div(y, sum)>>, dz |-> (sum = 0)]

rgbToXy(r, g, b) ==
    LET xyz == rgbToXyz(r, g, b) IN xyzToXy(xyz[1], xyz[2], xyz[3]).v

getRgbGamutVertices == << <<640000, 330000>>, <<300000, 600000>>, <<150000, 60000>> >>

getD65WhitePoint == <<312700, 329000>>

\* getSpectralLocus: the 65 points of the literal, 380nm to 780nm.
getSpectralLocus ==
    <<
       <<174100, 5000>>, <<173800, 4900>>, <<173600, 4800>>, <<173300, 4800>>,
       <<173000, 4800>>, <<172600, 4800>>, <<172100, 4900>>, <<171400, 5100>>,
       <<170300, 5700>>, <<168900, 6900>>, <<166900, 8600>>, <<164400, 10900>>,
       <<161100, 13800>>, <<156600, 17700>>, <<151000, 22700>>, <<144000, 29700>>,
       <<135500, 39900>>, <<124100, 57800>>, <<109600, 86800>>, <<91300, 132700>>,
       <<68700, 200700>>, <<45400, 295000>>, <<23500, 412700>>, <<8200, 538400>>,
       <<3900, 654800>>, <<13900, 750200>>, <<38900, 812000>>, <<74300, 833800>>,
       <<114200, 826200>>, <<154700, 805900>>, <<192900, 781600>>, <<229600, 754300>>,
       <<265800, 724300>>, <<301600, 692300>>, <<337300, 658900>>, <<373100, 624500>>,
       <<408700, 589600>>, <<444100, 554700>>, <<478800, 520200>>, <<512500, 486600>>,
       <<544800, 454400>>, <<575200, 424200>>, <<602900, 396500>>, <<627000, 372500>>,
       <<648200, 351400>>, <<665800, 334000>>, <<680100, 319700>>, <<691500, 308300>>,
       <<700600, 299300>>, <<707900, 292000>>, <<714000, 285900>>, <<719000, 280900>>,
       <<723000, 277000>>, <<726000, 274000>>, <<728300, 271700>>, <<730000, 270000>>,
       <<731100, 268900>>, <<732000, 268000>>, <<732700, 267300>>, <<733400, 266600>>,
       <<734000, 266000>>, <<734400, 265600>>, <<734600, 265400>>, <<734700, 265300>>,
       <<734700, 265300>>
    >>

\* Mutant of xyToRgbInvalid: every y that is not positive is an edge case.
xyToRgbInvalidNonPositive(x, y) == y <= 0 \/ x + y > ONE

\* xyToRgb, the edge case that returns gray.
xyToRgbInvalid(x, y) == y = 0 \/ x + y > ONE

\* The XYZ to linear RGB matrix of xyToRgb, each coefficient * 10^7.
XYZ_TO_RGB ==
    << << 32404542, -15371385, -4985314>>,
       << -9692660,  18760108,   415560>>,
       <<   556434,  -2040259, 10572252>> >>

\* a * c for a coefficient c of seven decimals, as a fixed-point number.
MulCoef(a, c) == Sgn(a) * Sgn(c) * (MulShift6(Abs(a), Abs(c)) \div 10)

\* xyToRgb, lines 178-191: xyY to XYZ and the inverse matrix.
xyToLinearRgb(x, y, Y) ==
    LET X == Mul(Div(x, y), Y)
        Z == Mul(Div(ONE - x - y, y), Y)
        row(m) == MulCoef(X, m[1]) + MulCoef(Y, m[2]) + MulCoef(Z, m[3])
    IN  <<row(XYZ_TO_RGB[1]), row(XYZ_TO_RGB[2]), row(XYZ_TO_RGB[3])>>

\* Mutant of scaleToGamut: each channel is clamped to 1 on its own.
scaleToGamutClampEach(rgb) ==
    <<Min2(rgb[1], ONE), Min2(rgb[2], ONE), Min2(rgb[3], ONE)>>

\* xyToRgb, lines 195-201: scale down by the largest channel when it exceeds 1.
scaleToGamut(rgb) ==
    LET max == Max3(rgb[1], rgb[2], rgb[3])
    IN  IF max > ONE
        THEN <<Div(rgb[1], max), Div(rgb[2], max), Div(rgb[3], max)>>
        ELSE rgb

\* gammaCorrect's branch condition val <= 0.0031308, in units of 1/ONE (a
\* fixed-point val is at most 0.0031308 iff it is at most 0.003130).
GAMMA_THRESHOLD == 3130

\* xyToRgb, the inner gammaCorrect.
gammaCorrect(val) ==
    IF val <= GAMMA_THRESHOLD
    THEN MulCoef(val, 129200000)
    ELSE MulCoef(Pow(val, 5, 12), 10550000) - 55000

\* xyToRgb, lines 213-215: the tolerance clamp before gamma encoding.
clampLinear(c) == Max2(-(ONE \div 2), Min2(3 * (ONE \div 2), c))

\* Mutant of normalize: negative values are not clamped to 0.
normalizeNoFloor(val) ==
    IF val > ONE THEN 255 ELSE Round(val * 255)

\* xyToRgb, the inner normalize.
normalize(val) ==
    IF val < 0 THEN 0
    ELSE IF val > ONE THEN 255
    ELSE Round(val * 255)

\* xyToRgb: the value returned and whether a division by zero was evaluated.
xyToRgb(x, y, Y) ==
    IF xyToRgbInvalid(x, y)
    THEN [v |-> <<128, 128, 128>>, dz |-> FALSE, lin |-> <<>>, scaled |-> <<>>]
    ELSE LET lin == xyToLinearRgb(x, y, Y)
             scaled == scaleToGamut(lin)
             enc(c) == normalize(gammaCorrect(clampLinear(c)))
         IN  [v |-> <<enc(scaled[1]), enc(scaled[2]), enc(scaled[3])>>,
              dz |-> (y = 0), lin |-> lin, scaled |-> scaled]

-----------------------------------------------------------------------------
(* Calls of the conversion core.  A caller calls one function with         *)
(* arguments of its choice and then takes the result (Return).             *)

\* xyzToXy is called with components k/4, |k| <= XyzMax.
XyzMax == 3

XyzInputs == { k * (ONE \div 4) : k \in (-XyzMax)..XyzMax }

\* xyToRgb is called with x and y in tenths from -XyNeg/10 to XyMax/10 and a
\* luminance Y in halves from -1/2 to YMax/2 (the default Y = 1.0 included).
XyNeg == 2

XyMax == 12

YMax == 3

XyInputs == { k * (ONE \div 10) : k \in (-XyNeg)..XyMax }

YInputs == { k * (ONE \div 2) : k \in (-1)..YMax }

\* rgbToLinear is called with one channel over all codes 0..MAX_CODE and the
\* other two over a few codes around the segment boundary.
MAX_CODE == 255

SampleCodes == {0, 10, 11, MAX_CODE}

\* linearRgbToXyz is called on two triples a, b with channels in halves from
\* -1/2 to LinMax/2, on their sum, and on a scaled by k in -1..ScaleMax.
LinMax == 2

ScaleMax == 2

LinInputs == { k * (ONE \div 2) : k \in (-1)..LinMax }

ConvInit ==
    /\ op = "none"
    /\ args = <<>>
    /\ ret = <<>>
    /\ dz = FALSE
    /\ locals = <<>>

CallXyzToXy ==
    /\ op = "none"
    /\ \E x \in XyzInputs, y \in XyzInputs, z \in XyzInputs :
        /\ op' = "xyzToXy"
        /\ args' = <<x, y, z>>
        /\ ret' = xyzToXy(x, y, z).v
        /\ dz' = xyzToXy(x, y, z).dz
        /\ locals' = <<>>

\* xyToRgb is also called at the D65 white point with a luminance near that
\* of middle gray.
GrayInputs ==
    {<<getD65WhitePoint[1], getD65WhitePoint[2], k * (ONE \div 1000)>> : k \in {210, 216, 1000}}

CallXyToRgb ==
    /\ op = "none"
    /\ \E in \in (XyInputs \X XyInputs \X YInputs) \cup GrayInputs :
      LET x == in[1]
          y == in[2]
          Y == in[3]
      IN
        /\ op' = "xyToRgb"
        /\ args' = <<x, y, Y>>
        /\ ret' = xyToRgb(x, y, Y).v
        /\ dz' = xyToRgb(x, y, Y).dz
        /\ locals' = [lin |-> xyToRgb(x, y, Y).lin, scaled |-> xyToRgb(x, y, Y).scaled]

CallRgbToLinear ==
    /\ op = "none"
    /\ \E r \in 0..MAX_CODE, g \in SampleCodes, b \in SampleCodes :
        /\ op' = "rgbToLinear"
        /\ args' = <<r, g, b>>
        /\ ret' = rgbToLinear(r * ONE, g * ONE, b * ONE)
        /\ dz' = FALSE
        /\ locals' = <<>>

\* Four calls of linearRgbToXyz: on a, on b, on a + b and on k * a.
CallLinearRgbToXyz ==
    /\ op = "none"
    /\ \E a \in LinInputs \X LinInputs \X LinInputs,
          b \in LinInputs \X LinInputs \X LinInputs,
          k \in (-1)..ScaleMax :
        /\ op' = "linearRgbToXyz"
        /\ args' = <<a, b, k>>
        /\ ret' = << linearRgbToXyz(a[1], a[2], a[3]),
                     linearRgbToXyz(b[1], b[2], b[3]),
                     linearRgbToXyz(a[1] + b[1], a[2] + b[2], a[3] + b[3]),
                     linearRgbToXyz(k * a[1], k * a[2], k * a[3]) >>
        /\ dz' = FALSE
        /\ locals' = <<>>

Return ==
    /\ op # "none"
    /\ op' = "none"
    /\ args' = <<>>
    /\ ret' = <<>>
    /\ dz' = FALSE
    /\ locals' = <<>>

ConvNext ==
    \/ CallXyzToXy
    \/ CallXyToRgb
    \/ CallRgbToLinear
    \/ CallLinearRgbToXyz
    \/ Return

-----------------------------------------------------------------------------
(* CIEBackground.isPointInsideSpectralLocus (the same code is in           *)
(* Renderer2D): the ray-casting containment test, one loop iteration per   *)
(* step.                                                                   *)

\* Mutant of straddles: the x coordinates are compared instead of the y's.
straddlesByX(vi, vj, p) == (vi[1] > p[1]) # (vj[1] > p[1])

\* Mutant of straddles: the first comparison is not strict.
straddlesNotStrict(vi, vj, p) == (vi[2] >= p[2]) # (vj[2] > p[2])

\* The first conjunct of intersect: yi > py !== yj > py.
straddles(vi, vj, p) == (vi[2] > p[2]) # (vj[2] > p[2])

\* The divisor of the second conjunct: yj - yi.
edgeDivisor(vi, vj) == vj[2] - vi[2]

\* The right-hand side of the second conjunct:
\* ((xj - xi) * (py - yi)) / (yj - yi) + xi.
edgeX(vi, vj, p) ==
    LET q == Div(Mul(vj[1] - vi[1], p[2] - vi[2]), edgeDivisor(vi, vj))
    IN  IF IsFinite(q) THEN q + vi[1] ELSE q

\* a < b where b may be non-finite.
Less(a, b) == b # NAN /\ a < b

\* intersect; && evaluates the second conjunct only when the first is true.
intersect(vi, vj, p) == straddles(vi, vj, p) /\ Less(p[1], edgeX(vi, vj, p))

\* The loop initialisation: i = 0, j = spectralLocus.length - 1.
pipStart(n) == [i |-> 0, j |-> n - 1]

\* The grid of CIEBackground.render: maxX, maxY of the coordinate system, and
\* the points i * maxX / GridN, j * maxY / GridN sampled from it.
MAX_X == 8 * (ONE \div 10)

MAX_Y == 9 * (ONE \div 10)

GridN == 10

GridPoints ==
    { <<a * (MAX_X \div GridN), b * (MAX_Y \div GridN)>> : a \in 0..GridN, b \in 0..GridN }

\* The centroid of the RGB gamut triangle.
Centroid ==
    LET t == getRgbGamutVertices
    IN  <<(t[1][1] + t[2][1] + t[3][1]) \div 3, (t[1][2] + t[2][2] + t[3][2]) \div 3>>

FarPoint == <<2 * ONE, 2 * ONE>>

\* Points on the rows of vertices (of horizontal edges, of the duplicated last
\* point, of the triangle's corners), and rows above and below every vertex.
ProbeRows == {-(ONE \div 10), 4800, 4900, 60000, 265300, 330000, 600000, 833800, ONE}

ProbePoints ==
    {Centroid, FarPoint, getD65WhitePoint}
        \cup { <<x, y>> : x \in {0, ONE \div 10, 2 * (ONE \div 10), ONE}, y \in ProbeRows }

\* A square with two horizontal edges and a repeated corner, and the empty
\* vertex list.
Square ==
    << <<0, 0>>, <<ONE \div 2, 0>>, <<ONE \div 2, ONE \div 2>>, <<0, ONE \div 2>>, <<0, ONE \div 2>> >>

Polygons == {getSpectralLocus, getRgbGamutVertices, Square, <<>>}

PipInit ==
    /\ polygon = <<>>
    /\ point = <<>>
    /\ loopI = 0
    /\ loopJ = 0
    /\ inside = FALSE
    /\ visited = <<>>
    /\ toggled = {}
    /\ pdz = FALSE
    /\ pc = "idle"

\* The call and the loop initialisation.
PipCall ==
    /\ pc = "idle"
    /\ \E poly \in Polygons, p \in GridPoints \cup ProbePoints :
        /\ polygon' = poly
        /\ point' = p
        /\ loopI' = pipStart(Len(poly)).i
        /\ loopJ' = pipStart(Len(poly)).j
    /\ inside' = FALSE
    /\ visited' = <<>>
    /\ toggled' = {}
    /\ pdz' = FALSE
    /\ pc' = "loop"

\* One iteration of the for loop: the edge from vertex j to vertex i.
PipStep ==
    /\ pc = "loop"
    /\ loopI < Len(polygon)
    /\ LET vi == polygon[loopI + 1]
           vj == polygon[loopJ + 1]
           hit == intersect(vi, vj, point)
       IN  /\ inside' = IF hit THEN ~inside ELSE inside
           /\ toggled' = IF hit THEN toggled \cup {<<loopJ, loopI>>} ELSE toggled
           /\ pdz' = (pdz \/ (straddles(vi, vj, point) /\ edgeDivisor(vi, vj) = 0))
    /\ visited' = Append(visited, <<loopJ, loopI>>)
    /\ loopJ' = loopI
    /\ loopI' = loopI + 1
    /\ UNCHANGED <<polygon, point>>
    /\ pc' = "loop"

\* The loop condition fails: return inside.
PipExit ==
    /\ pc = "loop"
    /\ loopI >= Len(polygon)
    /\ pc' = "done"
    /\ UNCHANGED <<polygon, point, loopI, loopJ, inside, visited, toggled, pdz>>

\* The caller takes the result.
PipReturn ==
    /\ pc = "done"
    /\ pc' = "idle"
    /\ polygon' = <<>>
    /\ point' = <<>>
    /\ loopI' = 0
    /\ loopJ' = 0
    /\ inside' = FALSE
    /\ visited' = <<>>
    /\ toggled' = {}
    /\ pdz' = FALSE

PipNext ==
    \/ PipCall
    \/ PipStep
    \/ PipExit
    \/ PipReturn

-----------------------------------------------------------------------------
(* valuesToHex.rgbToHex and the conversions computeDependentGradient calls. *)
(* Strings that are compared letter by letter are sequences of one-letter  *)
(* strings; colours are strings.                                           *)

HEX_DIGITS == <<"0", "1", "2", "3", "4", "5", "6", "7", "8", "9", "a", "b", "c", "d", "e", "f">>

\* rgbToHex, the inner toHex: Math.max(0, Math.min(255, Math.round(n)))
\* .toString(16).padStart(2, '0').
toHex(n) ==
    LET c == Max2(0, Min2(255, Round(n)))
    IN  HEX_DIGITS[(c \div 16) + 1] \o HEX_DIGITS[(c % 16) + 1]

\* rgbToHex: '#' + toHex(r) + toHex(g) + toHex(b).
rgbToHex(r, g, b) == "#" \o toHex(r) \o toHex(g) \o toHex(b)

\* Mutant of hue2rgb: t is not wrapped into 0..1.
hue2rgbNoWrap(p, q, t) ==
    IF t < Div(ONE, 6 * ONE) THEN p + Mul(Mul(q - p, 6 * ONE), t)
    ELSE IF t < Div(ONE, 2 * ONE) THEN q
    ELSE IF t < Div(2 * ONE, 3 * ONE)
         THEN p + Mul(Mul(q - p, Div(2 * ONE, 3 * ONE) - t), 6 * ONE)
    ELSE p

\* Renderer2D.hslToRgb, the inner hue2rgb.
hue2rgb(p, q, t0) ==
    LET t1 == IF t0 < 0 THEN t0 + ONE ELSE t0
        t  == IF t1 > ONE THEN t1 - ONE ELSE t1
    IN  IF t < Div(ONE, 6 * ONE) THEN p + Mul(Mul(q - p, 6 * ONE), t)
        ELSE IF t < Div(ONE, 2 * ONE) THEN q
        ELSE IF t < Div(2 * ONE, 3 * ONE)
             THEN p + Mul(Mul(q - p, Div(2 * ONE, 3 * ONE) - t), 6 * ONE)
        ELSE p

\* Renderer2D.hslToRgb: h, s and l in 0..1, the result in 0..255.
hslToRgbUnit(h, s, l) ==
    IF s = 0
    THEN <<Round(l * 255), Round(l * 255), Round(l * 255)>>
    ELSE LET q == IF l < ONE \div 2 THEN Mul(l, ONE + s) ELSE l + s - Mul(l, s)
             p == 2 * l - q
         IN  <<Round(hue2rgb(p, q, h + Div(ONE, 3 * ONE)) * 255),
               Round(hue2rgb(p, q, h) * 255),
               Round(hue2rgb(p, q, h - Div(ONE, 3 * ONE)) * 255)>>

\* hslToRgb(h, s, l): h in degrees, s and l in percent.
hslToRgb(h, s, l) ==
    hslToRgbUnit(Div(h, 360 * ONE), Div(s, 100 * ONE), Div(l, 100 * ONE))

\* Math.floor of a fixed-point number, as an integer.
Floor(a) == a \div ONE

\* hsvToRgb(h, s, v): h in degrees, s and v in percent; the sextant formulas.
hsvToRgb(h, s, v) ==
    LET hp  == Div(h, 60 * ONE)
        sx  == Floor(hp) % 6
        f   == hp - Floor(hp) * ONE
        sat == Div(s, 100 * ONE)
        val == Div(v, 100 * ONE)
        p   == Mul(val, ONE - sat)
        q   == Mul(val, ONE - Mul(f, sat))
        t   == Mul(val, ONE - Mul(ONE - f, sat))
        rgb == IF sx = 0 THEN <<val, t, p>>
               ELSE IF sx = 1 THEN <<q, val, p>>
               ELSE IF sx = 2 THEN <<p, val, t>>
               ELSE IF sx = 3 THEN <<p, q, val>>
               ELSE IF sx = 4 THEN <<t, p, val>>
               ELSE <<val, p, q>>
    IN  <<Round(rgb[1] * 255), Round(rgb[2] * 255), Round(rgb[3] * 255)>>

\* The inverse of the Lab companding function: the cube when it exceeds
\* 0.008856, else (t - 16/116) / 7.787.
labInverse(t) ==
    LET t3 == Mul(Mul(t, t), t)
    IN  IF t3 > 8856 THEN t3 ELSE Div(t - Div(16 * ONE, 116 * ONE), 7787000)

\* labToXyz(L, a, b), D65 reference white (95.047, 100, 108.883).
labToXyz(L, a, b) ==
    LET fy == Div(L + 16 * ONE, 116 * ONE)
        fx == Div(a, 500 * ONE) + fy
        fz == fy - Div(b, 200 * ONE)
    IN  <<Mul(95047000, labInverse(fx)), Mul(100 * ONE, labInverse(fy)),
          Mul(108883000, labInverse(fz))>>

\* xyzToRgb(x, y, z): XYZ on the 0..100 scale to gamma-encoded 0..255.
xyzToRgb(x, y, z) ==
    LET X == Div(x, 100 * ONE)
        Y == Div(y, 100 * ONE)
        Z == Div(z, 100 * ONE)
        row(m) == MulCoef(X, m[1]) + MulCoef(Y, m[2]) + MulCoef(Z, m[3])
        enc(c) == normalize(gammaCorrect(Max2(0, Min2(ONE, c))))
    IN  <<enc(row(XYZ_TO_RGB[1])), enc(row(XYZ_TO_RGB[2])), enc(row(XYZ_TO_RGB[3]))>>

\* labToRgb(L, a, b).
labToRgb(L, a, b) ==
    LET xyz == labToXyz(L, a, b)
    IN  xyzToRgb(xyz[1], xyz[2], xyz[3])

PI == 3141593

\* Math.cos by its power series, the argument reduced to -PI..PI.
RECURSIVE CosSeries(_, _, _, _)
CosSeries(x, term, k, n) ==
    IF k > n THEN 0
    ELSE term + CosSeries(x, -Div(Mul(Mul(term, x), x), (2 * k - 1) * (2 * k) * ONE), k + 1, n)

Cos(x) ==
    LET m == x % (2 * PI)
        r == IF m > PI THEN m - 2 * PI ELSE m
    IN  CosSeries(r, ONE, 1, 9)

\* Math.sin(x) as cos(x - PI/2).
Sin(x) == Cos(x - (PI \div 2))

\* lchToLab(L, C, h): a = C cos(h), b = C sin(h), h in degrees.
lchToLab(L, C, h) ==
    LET rad == Div(Mul(h, PI), 180 * ONE)
    IN  <<L, Mul(C, Cos(rad)), Mul(C, Sin(rad))>>

\* ycbcrToRgb(y, cb, cr), ITU-R BT.601: the offsets 16 and 128 are
\* subtracted, the inverse matrix applied, the result clamped to 0..255.
ycbcrToRgb(y, cb, cr) ==
    LET yy == Mul(1164000, y - 16 * ONE)
        u  == cb - 128 * ONE
        w  == cr - 128 * ONE
        cl(c) == Max2(0, Min2(255, Round(c)))
    IN  <<cl(yy + Mul(1596000, w)),
          cl(yy - Mul(392000, u) - Mul(813000, w)),
          cl(yy + Mul(2017000, u))>>

-----------------------------------------------------------------------------
(* rgbToHsl and rgbToHsv, and the round trips through them.                *)

\* The hue in degrees of channels r, g, b in 0..1 with largest max and
\* chroma d > 0: the branch of the largest channel, the offsets 2 and 4,
\* wrapped into 0..360.
hueOf(r, g, b, max, d) ==
    LET h6 == IF max = r THEN Div(g - b, d) + (IF g < b THEN 6 * ONE ELSE 0)
              ELSE IF max = g THEN Div(b - r, d) + 2 * ONE
              ELSE Div(r - g, d) + 4 * ONE
    IN  Mul(h6, 60 * ONE)

\* rgbToHsl(r, g, b): codes 0..255 to h in degrees, s and l in percent.
rgbToHsl(r0, g0, b0) ==
    LET r == Div(r0, 255 * ONE)
        g == Div(g0, 255 * ONE)
        b == Div(b0, 255 * ONE)
        max == Max3(r, g, b)
        min == Min2(r, Min2(g, b))
        l == Div(max + min, 2 * ONE)
        d == max - min
    IN  IF d = 0 THEN <<0, 0, l * 100>>
        ELSE <<hueOf(r, g, b, max, d),
               (IF l > ONE \div 2 THEN Div(d, 2 * ONE - max - min) ELSE Div(d, max + min)) * 100,
               l * 100>>

\* rgbToHsv(r, g, b): codes 0..255 to h in degrees, s and v in percent.
rgbToHsv(r0, g0, b0) ==
    LET r == Div(r0, 255 * ONE)
        g == Div(g0, 255 * ONE)
        b == Div(b0, 255 * ONE)
        max == Max3(r, g, b)
        d == max - Min2(r, Min2(g, b))
    IN  IF d = 0 THEN <<0, 0, max * 100>>
        ELSE <<hueOf(r, g, b, max, d), Div(d, max) * 100, max * 100>>

\* The calls hslToRgb(...rgbToHsl(r, g, b)) and hsvToRgb(...rgbToHsv(r, g, b))
\* on colour codes.
CallRoundTrip ==
    /\ op = "none"
    /\ \E r \in 0..MAX_CODE, g \in {0, 1, 100, 127, 128, MAX_CODE}, b \in {0, 77, 128, 254, MAX_CODE} :
        LET hsl == rgbToHsl(r * ONE, g * ONE, b * ONE)
            hsv == rgbToHsv(r * ONE, g * ONE, b * ONE)
        IN  /\ op' = "roundTrip"
            /\ args' = <<r, g, b>>
            /\ ret' = <<hslToRgb(hsl[1], hsl[2], hsl[3]), hsvToRgb(hsv[1], hsv[2], hsv[3])>>
            /\ locals' = [hsl |-> hsl, hsv |-> hsv]
    /\ dz' = FALSE

TripNext ==
    \/ CallRoundTrip
    \/ Return

-----------------------------------------------------------------------------
(* createSlider.computeDependentGradient.  An optional argument is a       *)
(* record whose field given tells whether a value was passed; a values map *)
(* is a function from the keys it holds to numbers.                        *)

LOWER == <<"a", "b", "c", "d", "e", "f", "g", "h", "i", "j", "k", "l", "m",
           "n", "o", "p", "q", "r", "s", "t", "u", "v", "w", "x", "y", "z">>

UPPER == <<"A", "B", "C", "D", "E", "F", "G", "H", "I", "J", "K", "L", "M",
           "N", "O", "P", "Q", "R", "S", "T", "U", "V", "W", "X", "Y", "Z">>

\* String.prototype.toUpperCase.
toUpperCase(text) ==
    [k \in 1..Len(text) |->
        IF \E n \in 1..26 : LOWER[n] = text[k]
        THEN UPPER[CHOOSE n \in 1..26 : LOWER[n] = text[k]]
        ELSE text[k]]

\* (colorSpace || ''): undefined and the empty string give ''.
orEmptyString(colorSpace) == IF colorSpace.given THEN colorSpace.text ELSE <<>>

\* (values || {}).
orEmptyMap(values) == IF values.given THEN values.map ELSE <<>>

\* v.key ?? dflt.
readOr(v, key, dflt) == IF key \in DOMAIN v THEN v[key] ELSE dflt

NULL_GRADIENT == [isNull |-> TRUE, type |-> "", stops |-> <<>>]

stop(pos, color) == [pos |-> pos, color |-> color]

linear(stops) == [isNull |-> FALSE, type |-> "linear", stops |-> stops]

\* toHex(...rgb) for a triple of colour codes.
tripleToHex(rgb) == rgbToHex(rgb[1] * ONE, rgb[2] * ONE, rgb[3] * ONE)

\* Mutant of HALF: the middle stop sits at the end.
HALF_AT_END == ONE

HALF == ONE \div 2

\* Mutant of hslSaturationColor: the saturation is read from the values map.
hslSaturationColorFromMap(v) ==
    hslToRgb(readOr(v, "h", 0), readOr(v, "s", 100 * ONE), 50 * ONE)

\* Line 359: hslToRgb(v.h ?? 0, 100, 50).
hslSaturationColor(v) == hslToRgb(readOr(v, "h", 0), 100 * ONE, 50 * ONE)

\* Mutant of isLchChroma: the channel key is compared without regard to case.
isLchChromaAnyCase(space, channelKey) ==
    space = <<"L", "C", "H">> /\ channelKey \in {"C", "c"}

\* Line 382: space === 'LCH' && channelKey === 'C'.
isLchChroma(space, channelKey) ==
    space = <<"L", "C", "H">> /\ channelKey = "C"

computeDependentGradient(colorSpace, channelKey, values) ==
    LET space == toUpperCase(orEmptyString(colorSpace))
        v == orEmptyMap(values)
        L == readOr(v, "L", readOr(v, "l", 50 * ONE))
    IN  IF space = <<"H", "S", "L">> /\ channelKey = "s"
        THEN linear(<<stop(0, "#808080"), stop(ONE, tripleToHex(hslSaturationColor(v)))>>)
        ELSE IF space = <<"H", "S", "L">> /\ channelKey = "l"
        THEN linear(<<stop(0, "#000000"),
                      stop(HALF, tripleToHex(hslToRgb(readOr(v, "h", 0), readOr(v, "s", 50 * ONE), 50 * ONE))),
                      stop(ONE, "#ffffff")>>)
        ELSE IF space = <<"H", "S", "V">> /\ channelKey = "s"
        THEN linear(<<stop(0, "#808080"),
                      stop(ONE, tripleToHex(hsvToRgb(readOr(v, "h", 0), 100 * ONE, 100 * ONE)))>>)
        ELSE IF space = <<"H", "S", "V">> /\ channelKey = "v"
        THEN linear(<<stop(0, "#000000"),
                      stop(HALF, tripleToHex(hsvToRgb(readOr(v, "h", 0), readOr(v, "s", 50 * ONE), 100 * ONE))),
                      stop(ONE, "#ffffff")>>)
        ELSE IF space = <<"L", "A", "B">> /\ (channelKey = "a" \/ channelKey = "b")
        THEN linear(<<stop(0, IF channelKey = "a"
                              THEN tripleToHex(labToRgb(L, -128 * ONE, 0))
                              ELSE tripleToHex(labToRgb(L, 0, -128 * ONE))),
                      stop(HALF, tripleToHex(labToRgb(L, 0, 0))),
                      stop(ONE, IF channelKey = "a"
                                THEN tripleToHex(labToRgb(L, 127 * ONE, 0))
                                ELSE tripleToHex(labToRgb(L, 0, 127 * ONE)))>>)
        ELSE IF isLchChroma(space, channelKey)
        THEN LET h == readOr(v, "h", 0)
                 g == lchToLab(L, 0, h)
                 f == lchToLab(L, 132 * ONE, h)
             IN  linear(<<stop(0, tripleToHex(labToRgb(g[1], g[2], g[3]))),
                          stop(ONE, tripleToHex(labToRgb(f[1], f[2], f[3])))>>)
        ELSE IF space = <<"Y", "C", "B", "C", "R">> /\ (channelKey = "cb" \/ channelKey = "cr")
        THEN linear(<<stop(0, IF channelKey = "cb" THEN "#0000ff" ELSE "#008000"),
                      stop(HALF, tripleToHex(ycbcrToRgb(readOr(v, "y", 128 * ONE), 128 * ONE, 128 * ONE))),
                      stop(ONE, IF channelKey = "cb" THEN "#ffff00" ELSE "#ff0000")>>)
        ELSE NULL_GRADIENT

\* COLOR_SPACES: the type each space declares for each of its channels.
COLOR_SPACES ==
    [RGB |-> [r |-> "linear", g |-> "linear", b |-> "linear"],
     CMYK |-> [c |-> "linear", m |-> "linear", y |-> "linear", k |-> "linear"],
     HSL |-> [h |-> "circular", s |-> "dependent2", l |-> "dependent3"],
     HSV |-> [h |-> "circular", s |-> "dependent2", v |-> "dependent3"],
     LAB |-> [L |-> "linear", a |-> "dependent3", b |-> "dependent3"],
     LCH |-> [L |-> "linear", C |-> "dependent2", h |-> "circularDependent"],
     XYZ |-> [x |-> "linear", y |-> "linear", z |-> "linear"],
     YCBCR |-> [y |-> "linear", cb |-> "dependent3", cr |-> "dependent3"]]

\* The keys of COLOR_SPACES as the letters of a space name.
SPACE_KEYS ==
    [RGB |-> <<"R", "G", "B">>, CMYK |-> <<"C", "M", "Y", "K">>,
     HSL |-> <<"H", "S", "L">>, HSV |-> <<"H", "S", "V">>,
     LAB |-> <<"L", "A", "B">>, LCH |-> <<"L", "C", "H">>,
     XYZ |-> <<"X", "Y", "Z">>, YCBCR |-> <<"Y", "C", "B", "C", "R">>]

\* The space names passed: the eight colour spaces in several letter cases,
\* near misses, the empty string and undefined.
SpaceTexts ==
    { <<>>,
      <<"h", "s", "l">>, <<"H", "S", "L">>, <<"H", "s", "l">>,
      <<"h", "s", "v">>, <<"H", "S", "V">>, <<"h", "s", "V">>,
      <<"l", "a", "b">>, <<"L", "A", "B">>, <<"L", "a", "b">>,
      <<"l", "c", "h">>, <<"L", "C", "H">>, <<"L", "C", "h">>,
      <<"y", "c", "b", "c", "r">>, <<"Y", "C", "B", "C", "R">>, <<"Y", "C", "b", "C", "r">>,
      <<"r", "g", "b">>, <<"R", "G", "B">>, <<"R", "g", "b">>,
      <<"c", "m", "y", "k">>, <<"C", "M", "Y", "K">>, <<"C", "m", "y", "k">>,
      <<"x", "y", "z">>, <<"X", "Y", "Z">>, <<"x", "Y", "z">>,
      <<"h", "s">>, <<"h", "s", "l", "a">>, <<"h", "s", "l", " ">>,
      <<"y", "c", "b", "c">> }

ColorSpaces ==
    {[given |-> FALSE, text |-> <<>>]} \cup {[given |-> TRUE, text |-> t] : t \in SpaceTexts}

\* The channel keys passed: the keys of channelConfig in both letter cases,
\* and the empty key.
ChannelKeys ==
    {"", "r", "g", "b", "h", "s", "l", "v", "a", "c", "m", "y", "k", "x", "z",
     "cb", "cr", "R", "G", "B", "H", "S", "L", "V", "A", "C", "M", "Y", "K",
     "X", "Z", "Cb", "CB", "Cr", "CR"}

\* The hues passed: multiples of 15 degrees.
HueSteps == 24

Hues == { k * 15 * ONE : k \in 0..HueSteps }

\* A key the values map does not hold.
ABSENT == -1

\* The values map holding the entries of e that are not ABSENT.
mapOf(e) == [k \in {x \in DOMAIN e : e[x] # ABSENT} |-> e[k]]

\* Maps that vary the hue and the other entries read with HSL and HSV.
HueMaps ==
    { mapOf([h |-> h, s |-> s, l |-> l]) :
        h \in Hues \cup {ABSENT}, s \in {ABSENT, 0, 35 * ONE}, l \in {ABSENT, 20 * ONE} }

\* Maps that vary the entries read with LAB, LCH and YCBCR.
LightnessMaps ==
    { mapOf([L |-> L, l |-> l, h |-> h, y |-> y]) :
        L \in {ABSENT, 70 * ONE}, l \in {ABSENT, 30 * ONE},
        h \in {ABSENT, 0, 75 * ONE}, y \in {ABSENT, 16 * ONE, 200 * ONE} }

ValueMaps ==
    {[given |-> FALSE, map |-> <<>>]}
        \cup {[given |-> TRUE, map |-> m] : m \in HueMaps \cup LightnessMaps}

GradInit ==
    /\ gradientCall = <<>>
    /\ gradient = NULL_GRADIENT
    /\ gradientPc = "idle"

\* A call of computeDependentGradient(colorSpace, channelKey, values): every
\* space name and key with a missing map, an empty map and one full map, and
\* every map with the pairs whose branch reads it.
CallComputeDependentGradient ==
    /\ gradientPc = "idle"
    /\ \E colorSpace \in ColorSpaces, channelKey \in ChannelKeys, values \in ValueMaps :
        /\ \/ values.map \in {<<>>, mapOf([h |-> 120 * ONE, s |-> 35 * ONE, l |-> 20 * ONE])}
           \/ toUpperCase(colorSpace.text) \in {<<"H", "S", "L">>, <<"H", "S", "V">>}
                 /\ channelKey \in {"s", "l", "v"} /\ colorSpace.text[1] = "h"
           \/ toUpperCase(colorSpace.text) \in {<<"L", "A", "B">>, <<"L", "C", "H">>, <<"Y", "C", "B", "C", "R">>}
                 /\ channelKey \in {"a", "C", "cb"} /\ colorSpace.text[1] # "L"
        /\ gradientCall' = <<colorSpace, channelKey, values>>
        /\ gradient' = computeDependentGradient(colorSpace, channelKey, values)
    /\ gradientPc' = "returned"

\* The caller takes the result (updateTrackGradient).
GradientReturn ==
    /\ gradientPc = "returned"
    /\ gradientCall' = <<>>
    /\ gradient' = NULL_GRADIENT
    /\ gradientPc' = "idle"

GradNext ==
    \/ CallComputeDependentGradient
    \/ GradientReturn

-----------------------------------------------------------------------------
(* Calls in sequence, with the objects they allocate.  heap holds the      *)
(* arrays the getters have returned, each with the function that allocated *)
(* it; the caller may write into any of them.  valuesObject is the values  *)
(* map the caller holds and passes to computeDependentGradient.            *)

\* Mutant of newArray: a getter returns again the array it returned before.
newArrayShared(h, fn, literal) ==
    IF \E r \in 1..Len(h) : h[r].site = fn
    THEN [ref |-> CHOOSE r \in 1..Len(h) : h[r].site = fn, heap |-> h]
    ELSE [ref |-> Len(h) + 1, heap |-> Append(h, [site |-> fn, val |-> literal])]

\* return [ ... ]: the array literal is evaluated to a new array at each call.
newArray(h, fn, literal) ==
    [ref |-> Len(h) + 1, heap |-> Append(h, [site |-> fn, val |-> literal])]

GETTERS == {"getSpectralLocus", "getRgbGamutVertices", "getD65WhitePoint"}

\* The array literal of a getter.
getterLiteral(fn) ==
    IF fn = "getSpectralLocus" THEN getSpectralLocus
    ELSE IF fn = "getRgbGamutVertices" THEN getRgbGamutVertices
    ELSE getD65WhitePoint

\* The values map after a call of computeDependentGradient: the function
\* assigns to no property of values (or of its alias v).
valuesAfterCall(values) == values

\* The most arrays the heap holds.
MaxObjects == 2

\* The values maps the caller holds.
HeldValues ==
    { [given |-> FALSE, map |-> <<>>],
      [given |-> TRUE, map |-> <<>>],
      [given |-> TRUE, map |-> mapOf([h |-> 240 * ONE, s |-> 35 * ONE])] }

\* The (colorSpace, channelKey) pairs of the calls in sequence.
HeldPairs ==
    { <<[given |-> TRUE, text |-> <<"H", "S", "L">>], "s">>,
      <<[given |-> TRUE, text |-> <<"h", "s", "v">>], "v">>,
      <<[given |-> TRUE, text |-> <<"R", "G", "B">>], "r">> }

NO_CALL == [fn |-> "none", args |-> <<>>, ref |-> 0, value |-> <<>>]

HeapInit ==
    /\ heap = <<>>
    /\ valuesObject = [given |-> FALSE, map |-> <<>>]
    /\ call = NO_CALL
    /\ earlier = NO_CALL

\* A call of getSpectralLocus(), getRgbGamutVertices() or getD65WhitePoint().
CallGetter ==
    /\ call.fn = "none"
    /\ Len(heap) < MaxObjects
    /\ \E fn \in GETTERS :
        LET a == newArray(heap, fn, getterLiteral(fn))
        IN  /\ heap' = a.heap
            /\ call' = [fn |-> fn, args |-> <<>>, ref |-> a.ref, value |-> a.heap[a.ref].val]
    /\ UNCHANGED <<valuesObject, earlier>>

\* The caller writes into an array a getter returned: it zeroes the first
\* element, or empties the array.
MutateArray ==
    /\ call.fn = "none"
    /\ \E r \in 1..Len(heap) :
        /\ Len(heap[r].val) > 0
        /\ \/ heap' = [heap EXCEPT ![r].val = [@ EXCEPT ![1] = IF heap[r].site = "getD65WhitePoint" THEN 0 ELSE <<0, @[2]>>]]
           \/ heap' = [heap EXCEPT ![r].val = <<>>]
        /\ heap'[r].val # heap[r].val
    /\ UNCHANGED <<valuesObject, call, earlier>>

\* The caller replaces the values map it holds.
SetValues ==
    /\ call.fn = "none"
    /\ \E m \in HeldValues :
        /\ m # valuesObject
        /\ valuesObject' = m
    /\ UNCHANGED <<heap, call, earlier>>

\* A call of computeDependentGradient with the values map the caller holds.
CallGradientHeld ==
    /\ call.fn = "none"
    /\ \E pair \in HeldPairs :
        call' = [fn |-> "computeDependentGradient",
                 args |-> <<pair[1], pair[2], valuesObject>>,
                 ref |-> 0,
                 value |-> computeDependentGradient(pair[1], pair[2], valuesObject)]
    /\ valuesObject' = valuesAfterCall(valuesObject)
    /\ UNCHANGED <<heap, earlier>>

\* A call of rgbToXy on colour codes.
CallRgbToXyHeld ==
    /\ call.fn = "none"
    /\ \E c \in {<<MAX_CODE, 0, 0>>, <<10, MAX_CODE, 11>>} :
        call' = [fn |-> "rgbToXy", args |-> c, ref |-> 0,
                 value |-> rgbToXy(c[1] * ONE, c[2] * ONE, c[3] * ONE)]
    /\ UNCHANGED <<heap, valuesObject, earlier>>

\* The result of the call is kept to be compared with a later call's.
Remember ==
    /\ call.fn # "none"
    /\ earlier.fn = "none"
    /\ earlier' = call
    /\ UNCHANGED <<heap, valuesObject, call>>

\* The caller takes the result.
ReturnHeld ==
    /\ call.fn # "none"
    /\ call' = NO_CALL
    /\ UNCHANGED <<heap, valuesObject, earlier>>

HeapNext ==
    \/ CallGetter
    \/ MutateArray
    \/ SetValues
    \/ CallGradientHeld
    \/ CallRgbToXyHeld
    \/ Remember
    \/ ReturnHeld

-----------------------------------------------------------------------------
(* ColorVisualizer.  visualizer holds the fields of the object (config is  *)
(* its mode and width), the renderer objects created so far, and, for the  *)
(* call made last, the events in order (log) and the error thrown.  A call *)
(* runs to completion; prior is visualizer before the call made last.      *)

NO_PRESET == [name |-> "", mode |-> "absent"]

\* The number of renderers that are initialised and not destroyed.
liveRenderers(v) == Cardinality({k \in 1..Len(v.renderers) : v.renderers[k].attached})

\* An event of the call, with the number of live renderers after it.
logged(v, ev, id) == [v EXCEPT !.log = Append(@, [ev |-> ev, id |-> id, live |-> liveRenderers(v)])]

\* Mutant of initializeRenderer: the new renderer is created and initialised
\* before the existing one is destroyed.
initializeRendererCreateFirst(v) ==
    LET r  == v.renderer
        id == Len(v.renderers) + 1
        v1 == logged([v EXCEPT !.renderers = Append(@, [kind |-> IF v.mode = "3d" THEN "3d" ELSE "2d",
                                                       destroyed |-> 0, attached |-> TRUE,
                                                       rendered |-> NO_PRESET])], "create", id)
        v2 == logged(v1, "init", id)
        v3 == IF r # 0
              THEN logged([v2 EXCEPT !.renderers[r].destroyed = @ + 1,
                                     !.renderers[r].attached = FALSE], "destroy", r)
              ELSE v2
    IN  [v3 EXCEPT !.renderer = id]

\* initializeRenderer(): destroy the existing renderer, then create and
\* initialise the renderer of config.mode.
initializeRenderer(v) ==
    LET r  == v.renderer
        v1 == IF r # 0
              THEN logged([v EXCEPT !.renderers[r].destroyed = @ + 1,
                                    !.renderers[r].attached = FALSE], "destroy", r)
              ELSE v
        id == Len(v.renderers) + 1
        v2 == logged([v1 EXCEPT !.renderer = id,
                                !.renderers = Append(@, [kind |-> IF v.mode = "3d" THEN "3d" ELSE "2d",
                                                         destroyed |-> 0, attached |-> FALSE,
                                                         rendered |-> NO_PRESET])], "create", id)
    IN  IF ~v1.container THEN [v1 EXCEPT !.thrown = "Container not set"]
        ELSE logged([v2 EXCEPT !.renderers[id].attached = TRUE], "init", id)

\* render(preset).
render(v, preset) ==
    IF v.renderer = 0 THEN [v EXCEPT !.thrown = "Renderer not initialized"]
    ELSE LET v1 == IF preset.mode # "absent" /\ preset.mode # v.mode
                   THEN initializeRenderer(logged([v EXCEPT !.mode = preset.mode], "mode", 0))
                   ELSE v
             v2 == logged([v1 EXCEPT !.currentPreset = preset], "preset", 0)
         IN  IF v1.thrown # "none" THEN v1
             ELSE logged([v2 EXCEPT !.renderers[v2.renderer].rendered = preset], "render", v2.renderer)

\* update(points).
update(v) ==
    IF v.renderer = 0 THEN [v EXCEPT !.thrown = "Renderer not initialized"]
    ELSE logged(v, "update", v.renderer)

\* resize(width, height).
resize(v, width) ==
    IF v.renderer = 0 THEN [v EXCEPT !.thrown = "Renderer not initialized"]
    ELSE logged([v EXCEPT !.width = width], "resize", v.renderer)

\* Mutant of setConfigModeChanged: the mode is compared with the mode in
\* effect before the call.
setConfigModeChangedFromOld(config, old, merged) ==
    config.mode # "absent" /\ config.mode # old.mode

\* setConfig, line 377: config.mode && config.mode !== this.config.mode, read
\* after this.config has been replaced by the merged configuration.
setConfigModeChanged(config, old, merged) ==
    config.mode # "absent" /\ config.mode # merged.mode

\* setConfig(config).
setConfig(v, config) ==
    LET v1 == [v EXCEPT !.mode = IF config.mode # "absent" THEN config.mode ELSE @,
                        !.width = IF config.width # 0 THEN config.width ELSE @]
        v2 == initializeRenderer(v1)
    IN  IF setConfigModeChanged(config, v, v1)
        THEN IF v2.thrown = "none" /\ v2.currentPreset # NO_PRESET
             THEN render(v2, v2.currentPreset)
             ELSE v2
        ELSE v1

\* Mutant of destroy: the renderer field is not set to null.
destroyKeepsRenderer(v) ==
    LET r == v.renderer
        v1 == IF r # 0
              THEN logged([v EXCEPT !.renderers[r].destroyed = @ + 1,
                                    !.renderers[r].attached = FALSE], "destroy", r)
              ELSE v
    IN  [v1 EXCEPT !.container = FALSE, !.currentPreset = NO_PRESET, !.resizeObserver = FALSE]

\* disposeResizeObserver() and destroy().
destroy(v) ==
    LET v1 == IF v.resizeObserver /\ v.container
              THEN logged([v EXCEPT !.resizeObserver = FALSE, !.disconnects = @ + 1], "disconnect", 0)
              ELSE v
        r  == v.renderer
        v2 == IF r # 0
              THEN logged([v1 EXCEPT !.renderers[r].destroyed = @ + 1,
                                     !.renderers[r].attached = FALSE,
                                     !.renderer = 0], "destroy", r)
              ELSE v1
    IN  [v2 EXCEPT !.container = FALSE, !.currentPreset = NO_PRESET]

\* handleResize(): the container's width (or the configured one) is taken.
handleResize(v, clientWidth) ==
    IF v.container /\ v.renderer # 0
    THEN LET v1 == resize(v, IF clientWidth # 0 THEN clientWidth ELSE v.width)
         IN  IF v1.currentPreset # NO_PRESET THEN render(v1, v1.currentPreset) ELSE v1
    ELSE v

\* updateCIEBackground, updateAxes, updateMarker, updateHSLHueWheel,
\* updateHSVHueWheel, updateCMYKGrid: forwarded to a 2D renderer only.
updateComponent(v) ==
    IF v.renderer # 0 /\ v.renderers[v.renderer].kind = "2d"
    THEN logged(v, "updateComponent", v.renderer)
    ELSE v

\* The most renderers created.
MaxRenderers == 3

Presets ==
    { [name |-> "p", mode |-> "2d"], [name |-> "p", mode |-> "3d"], [name |-> "q", mode |-> "absent"] }

\* new ColorVisualizer(container, config): mode '3d' unless config gives one.
VizInit ==
    \E m \in {"2d", "3d"} :
        /\ visualizer = [renderer |-> 1, container |-> TRUE, mode |-> m, width |-> 800,
                         currentPreset |-> NO_PRESET, resizeObserver |-> TRUE, disconnects |-> 0,
                         renderers |-> <<[kind |-> m, destroyed |-> 0, attached |-> TRUE,
                                          rendered |-> NO_PRESET]>>,
                         log |-> <<>>, thrown |-> "none", called |-> "constructor",
                         arg |-> NO_PRESET]
        /\ prior = visualizer

\* A call of a public method on the state left by the calls before it.
VizCall(name, arg, result) ==
    /\ Len(visualizer.renderers) < MaxRenderers
    /\ prior' = visualizer
    /\ visualizer' = [result EXCEPT !.called = name, !.arg = arg]

\* The state a call starts from: no event, nothing thrown.
entry == [visualizer EXCEPT !.log = <<>>, !.thrown = "none"]

VizRender == \E preset \in Presets : VizCall("render", preset, render(entry, preset))

VizUpdate == VizCall("update", NO_PRESET, update(entry))

VizResize == \E w \in {400} : VizCall("resize", NO_PRESET, resize(entry, w))

VizSetConfig ==
    \E m \in {"absent", "2d", "3d"}, w \in {0, 400} :
        VizCall("setConfig", [name |-> "", mode |-> m], setConfig(entry, [mode |-> m, width |-> w]))

VizHandleResize ==
    \E w \in {0} : VizCall("handleResize", NO_PRESET, handleResize(entry, w))

VizUpdateComponent == VizCall("updateComponent", NO_PRESET, updateComponent(entry))

VizDestroy == VizCall("destroy", NO_PRESET, destroy(entry))

VizNext ==
    \/ VizRender
    \/ VizUpdate
    \/ VizResize
    \/ VizSetConfig
    \/ VizHandleResize
    \/ VizUpdateComponent
    \/ VizDestroy

-----------------------------------------------------------------------------
(* Channel sliders and ColorChannelVisualizer                              *)
(* (src/color-channel-visualizer/createSlider.ts, unnamed/part_000).       *)
(* Time advances in ticks of 250 ms; the browser's timer table and its     *)
(* animation-frame queue are part of the state.                            *)

\* COLOR_SPACES.HSV.channels: key, min, max, circular type, dependsOn.
CHANNELS ==
    [h |-> [key |-> "h", min |-> 0, max |-> 360, circular |-> TRUE, dependsOn |-> {}],
     s |-> [key |-> "s", min |-> 0, max |-> 100, circular |-> FALSE, dependsOn |-> {"h"}],
     v |-> [key |-> "v", min |-> 0, max |-> 100, circular |-> FALSE, dependsOn |-> {"h", "s"}]]

\* The channels in array order.
CHANNEL_ORDER == <<"h", "s", "v">>

KEYS == {"h", "s", "v"}

\* COLOR_SPACES.HSV.defaultValues
defaultValues == [h |-> 0, s |-> 50, v |-> 50]

\* getValuesForSpace: the defaults, overridden by the keys that are given.
getValuesForSpace(overrides) ==
    [k \in KEYS |-> IF k \in DOMAIN overrides THEN overrides[k] ELSE defaultValues[k]]

\* COMMIT_DELAY_MS (500 ms) in ticks.
DELAY_TICKS == 2

\* clamp: Math.max(min, Math.min(max, v)); NaN passes through both.
clamp(v, min, max) == IF v = NAN THEN NAN ELSE Max2(min, Min2(max, v))

\* No value set by the user.
UNSET == NAN + 1

\* createChannelSlider: let value = clamp(initialValue ?? min, min, max).
\* timeouts is the set of this slider's pending timers [id, left]; age counts
\* the ticks since the last user-originated change, burst the
\* user-originated changes since its last commit, and userValue is the value
\* the user set last (UNSET before, and once the host has set another).
createChannelSlider(ch, initial) ==
    [value |-> clamp(IF initial = <<>> THEN ch.min ELSE initial[1], ch.min, ch.max),
     commitTimeoutId |-> 0,
     timeouts |-> {},
     age |-> DELAY_TICKS + 1,
     burst |-> 0,
     userValue |-> UNSET]

\* setValueLocal: value = clamp(newVal, min, max); the rest is display.
setValueLocal(ch, s, newVal) == [s EXCEPT !.value = clamp(newVal, ch.min, ch.max)]

\* The handle setTimeout / requestAnimationFrame returns: one not in use.
freshHandle(used) == CHOOSE n \in 1..(Cardinality(used) + 1) : n \notin used

handles(pending) == {t.id : t \in pending}

\* clearTimeout(id)
clearTimeout(pending, id) == {t \in pending : t.id # id}

\* Mutant of scheduleCommit: the pending timer is not cleared.
scheduleCommitNoClear(s) ==
    LET id == freshHandle(handles(s.timeouts))
    IN  [s EXCEPT !.timeouts = s.timeouts \cup {[id |-> id, left |-> DELAY_TICKS]},
                  !.commitTimeoutId = id]

\* scheduleCommit: clear the pending timer, if any, and start a new one.
scheduleCommit(s) ==
    LET cleared == IF s.commitTimeoutId # 0
                   THEN clearTimeout(s.timeouts, s.commitTimeoutId)
                   ELSE s.timeouts
        id == freshHandle(handles(cleared))
    IN  [s EXCEPT !.timeouts = cleared \cup {[id |-> id, left |-> DELAY_TICKS]},
                  !.commitTimeoutId = id]

\* notifyChange of the slider: setValueLocal, then scheduleCommit.
sliderNotifyChange(ch, s, newVal) ==
    [scheduleCommit(setValueLocal(ch, s, newVal)) EXCEPT
        !.age = 0, !.burst = s.burst + 1, !.userValue = clamp(newVal, ch.min, ch.max)]

\* onMove of a thumb drag: setValueLocal, then scheduleCommit.
onMove(ch, s, newVal) ==
    [scheduleCommit(setValueLocal(ch, s, newVal)) EXCEPT
        !.age = 0, !.burst = s.burst + 1, !.userValue = clamp(newVal, ch.min, ch.max)]

\* valueFromPageCoords and onTrackClick: min + p * range, with
\* p = (clientX - rect.left) / rect.width, or the angle's share of a turn on
\* a circular channel.  A pointer event e is [dx, width, quarter].
valueFromPageCoords(ch, e) ==
    LET range == ch.max - ch.min
    IN  IF ch.circular THEN ch.min + (e.quarter * range) \div 4
        ELSE IF e.width = 0
             THEN IF e.dx = 0 \/ range = 0 THEN NAN
                  ELSE IF e.dx > 0 THEN INF ELSE NEG_INF
             ELSE ch.min + (e.dx * range) \div e.width

\* Mutant of SliderInstance.setValue: it goes through notifyChange.
setValueNotifying(ch, s, v) == scheduleCommit(setValueLocal(ch, s, v))

\* SliderInstance.setValue: setValueLocal only.
setValue(ch, s, v) == setValueLocal(ch, s, v)

\* SliderInstance.destroy: clears the commit timer; removes the listeners of
\* track and thumb (the flag destroyed of the visualizer).
sliderDestroy(s) ==
    [s EXCEPT !.timeouts = IF s.commitTimeoutId # 0
                           THEN clearTimeout(s.timeouts, s.commitTimeoutId)
                           ELSE s.timeouts]

\* Mutant of scheduleFlush: a frame is requested on every call.
scheduleFlushAlways(c, key) ==
    LET id == freshHandle(c.frames)
    IN  [c EXCEPT !.pendingChangedKey = key, !.rafId = id, !.frames = c.frames \cup {id}]

\* scheduleFlush: pendingChangedKey = key; request a frame unless one is
\* pending.
scheduleFlush(c, key) ==
    IF c.rafId = 0
    THEN LET id == freshHandle(c.frames)
         IN  [c EXCEPT !.pendingChangedKey = key, !.rafId = id,
                       !.frames = c.frames \cup {id}]
    ELSE [c EXCEPT !.pendingChangedKey = key]

\* Mutant of the copy: the values object itself is handed out.
spreadShared(values) == [content |-> values, shared |-> TRUE]

\* { ...values }: a new object with the same entries.
spread(values) == [content |-> values, shared |-> FALSE]

\* An object handed to nobody.
NO_OBJECT == [content |-> <<>>, shared |-> FALSE]

\* The sliders whose channel's dependsOn includes changedKey, in order.
dependents(changedKey) ==
    SelectSeq(CHANNEL_ORDER, LAMBDA k : changedKey \in CHANNELS[k].dependsOn)

\* The calls updateGradient() of the sliders in keys.
gradientCalls(keys) == [i \in 1..Len(keys) |-> <<"updateGradient", keys[i]>>]

\* setValues(newValues): for each channel given, values[key] = v and
\* slider.setValue(v); then every slider's updateGradient().  The result is
\* the pair of the values and the sliders after the call.
setValues(values, sl, newValues) ==
    [values |-> [k \in KEYS |-> IF k \in DOMAIN newValues THEN newValues[k] ELSE values[k]],
     sliders |-> [k \in KEYS |-> IF k \in DOMAIN newValues
                                 THEN setValue(CHANNELS[k], sl[k], newValues[k])
                                 ELSE sl[k]]]

\* Bound: the number of user-originated changes in a run.
MaxChanges == 2

\* The pointer events tried: (clientX - rect.left, rect.width, quarter turn).
Pointers ==
    {[dx |-> 5, width |-> 4, quarter |-> 2],
     [dx |-> 1, width |-> 0, quarter |-> 2],
     [dx |-> 0, width |-> 0, quarter |-> 0]}

\* The sliders whose thumb is dragged.
DraggedKeys == {"s"}

\* The arguments of setValues tried.
NewValues == {[h |-> 180, s |-> -20]}

\* The options.values tried at construction.
InitialValues == {[v |-> 120]}

\* The event of a step that invokes no callback and hands out no object; by
\* is "change", "timer", "flush", "setValues", or "getValues" else.
NO_EVENT ==
    [by |-> "", key |-> "", arg |-> 0, calls |-> <<>>, committed |-> {},
     received |-> NO_OBJECT, before |-> <<>>, started |-> {}, burst |-> 0]

\* The timers and frames pending: <<key, id, left>> and <<"frame", id>>.
pendingOf(c, sl) ==
    UNION {{<<k, t.id, t.left>> : t \in sl[k].timeouts} : k \in KEYS}
        \cup {<<"frame", f>> : f \in c.frames}

CcvInit ==
    /\ \E o \in InitialValues, w \in BOOLEAN :
          LET values == getValuesForSpace(o)
          IN  /\ ccv = [values |-> values, rafId |-> 0, frames |-> {},
                        pendingChangedKey |-> "", destroyed |-> FALSE, wired |-> w]
              /\ sliders = [k \in KEYS |-> createChannelSlider(CHANNELS[k], <<values[k]>>)]
    /\ drag = ""
    /\ event = NO_EVENT
    /\ sinceFlush = {}
    /\ budget = 0

\* A user-originated change of slider k to newVal, which leaves it as after.
UserChange(k, newVal, after) ==
    /\ budget < MaxChanges
    /\ budget' = budget + 1
    /\ sliders' = [sliders EXCEPT ![k] = after]
    /\ event' = [NO_EVENT EXCEPT !.by = "change", !.key = k, !.arg = newVal,
                                 !.started = pendingOf(ccv, sliders') \ pendingOf(ccv, sliders)]
    /\ UNCHANGED <<ccv, drag, sinceFlush>>

\* input / change event of the range input: notifyChange(parseFloat(value)).
CcvInput ==
    \E k \in KEYS, v \in {0} :
        /\ ~ccv.destroyed
        /\ UserChange(k, v, sliderNotifyChange(CHANNELS[k], sliders[k], v))

\* click on the track (or the circular canvas).
CcvTrackClick ==
    \E k \in KEYS, e \in Pointers :
        /\ ~ccv.destroyed
        /\ UserChange(k, valueFromPageCoords(CHANNELS[k], e),
                      sliderNotifyChange(CHANNELS[k], sliders[k],
                                         valueFromPageCoords(CHANNELS[k], e)))

\* mousedown on a thumb: onMove and onUp are added to document.
CcvThumbMouseDown ==
    \E k \in DraggedKeys :
        /\ ~ccv.destroyed
        /\ drag = ""
        /\ drag' = k
        /\ event' = NO_EVENT
        /\ UNCHANGED <<ccv, sliders, sinceFlush, budget>>

\* mousemove on document during a drag.
CcvMouseMove ==
    \E e \in Pointers :
        /\ drag # ""
        /\ UserChange(drag, valueFromPageCoords(CHANNELS[drag], e),
                      onMove(CHANNELS[drag], sliders[drag],
                             valueFromPageCoords(CHANNELS[drag], e)))

\* mouseup on document: onMove and onUp are removed.
CcvMouseUp ==
    /\ drag # ""
    /\ drag' = ""
    /\ event' = NO_EVENT
    /\ UNCHANGED <<ccv, sliders, sinceFlush, budget>>

\* 250 ms pass: no timer that is due is passed over.  The age of a slider
\* is followed while a timer of it is pending.
CcvTick ==
    /\ \A k \in KEYS : \A t \in sliders[k].timeouts : t.left > 0
    /\ \E k \in KEYS : sliders[k].timeouts # {}
    /\ sliders' = [k \in KEYS |->
                      [sliders[k] EXCEPT
                          !.timeouts = {[t EXCEPT !.left = t.left - 1] : t \in sliders[k].timeouts},
                          !.age = IF sliders[k].timeouts = {} THEN sliders[k].age
                                  ELSE sliders[k].age + 1]]
    /\ event' = NO_EVENT
    /\ UNCHANGED <<ccv, drag, sinceFlush, budget>>

\* A commit timer of slider k fires: commitTimeoutId = null; onChange(value),
\* which is the visualizer's handler: values[key] = newVal;
\* onChannelChange(key, newVal); scheduleFlush(key).
CcvTimerFire ==
    \E k \in KEYS : \E t \in sliders[k].timeouts :
        /\ t.left = 0
        /\ sliders' = [sliders EXCEPT ![k].timeouts = sliders[k].timeouts \ {t},
                                      ![k].commitTimeoutId = 0,
                                      ![k].burst = 0]
        /\ ccv' = scheduleFlush([ccv EXCEPT !.values[k] = sliders[k].value], k)
        /\ sinceFlush' = sinceFlush \cup {k}
        /\ event' = [NO_EVENT EXCEPT !.by = "timer", !.key = k, !.arg = sliders[k].value,
                                     !.burst = sliders[k].burst,
                                     !.calls = <<<<"sliderOnChange", k>>, <<"onChannelChange", k>>>>,
                                     !.started = pendingOf(ccv', sliders') \ pendingOf(ccv, sliders)]
        /\ UNCHANGED <<drag, budget>>

\* What the host does with an object it received: it writes h = 270 into
\* it.  The result is the visualizer's values afterwards.
hostWrites(object, values) ==
    IF object.shared THEN [values EXCEPT !.h = 270] ELSE values

\* An animation frame runs flush: rafId = null; notifyChange() calls
\* onChange({ ...values }), which in the demo wiring calls updatePoint and so
\* setValues with the values received; then updateGradient() of the sliders
\* that depend on changedKey.
CcvFlush ==
    \E f \in ccv.frames :
        LET changedKey == ccv.pendingChangedKey
            copy == spread(ccv.values)
            back == IF ccv.wired THEN setValues(ccv.values, sliders, copy.content)
                    ELSE [values |-> ccv.values, sliders |-> sliders]
            wiring == IF ccv.wired
                      THEN <<<<"updatePoint", "">>, <<"setValues", "">>>>
                               \o gradientCalls(CHANNEL_ORDER)
                      ELSE <<>>
        IN  /\ ccv' = [ccv EXCEPT !.frames = ccv.frames \ {f}, !.rafId = 0,
                                  !.pendingChangedKey = "",
                                  !.values = hostWrites(copy, back.values)]
            /\ sliders' = back.sliders
            /\ sinceFlush' = {}
            /\ event' = [NO_EVENT EXCEPT !.by = "flush", !.key = changedKey,
                                         !.calls = <<<<"onChange", "">>>> \o wiring
                                                       \o gradientCalls(dependents(changedKey)),
                                         !.committed = sinceFlush,
                                         !.received = copy,
                                         !.before = ccv.values,
                                         !.started = pendingOf(ccv', sliders') \ pendingOf(ccv, sliders)]
            /\ UNCHANGED <<drag, budget>>

\* setValues(newValues) called by the host.
CcvSetValues ==
    \E nv \in NewValues :
        LET after == setValues(ccv.values, sliders, nv)
        IN  /\ ccv' = [ccv EXCEPT !.values = after.values]
            /\ sliders' = [k \in KEYS |-> IF k \in DOMAIN nv
                                          THEN [after.sliders[k] EXCEPT !.userValue = UNSET]
                                          ELSE after.sliders[k]]
            /\ event' = [NO_EVENT EXCEPT !.by = "setValues",
                                         !.calls = gradientCalls(CHANNEL_ORDER),
                                         !.started = pendingOf(ccv', sliders') \ pendingOf(ccv, sliders)]
            /\ UNCHANGED <<drag, sinceFlush, budget>>

\* getValues(): { ...values }; the host writes into the result.
CcvGetValues ==
    LET copy == spread(ccv.values)
    IN  /\ ccv' = [ccv EXCEPT !.values = hostWrites(copy, ccv.values)]
        /\ event' = [NO_EVENT EXCEPT !.by = "getValues", !.received = copy,
                                     !.before = ccv.values]
        /\ UNCHANGED <<sliders, drag, sinceFlush, budget>>

\* destroy(): sliders.forEach(s => s.destroy()); root.remove().
CcvDestroy ==
    /\ ~ccv.destroyed
    /\ ccv' = [ccv EXCEPT !.destroyed = TRUE]
    /\ sliders' = [k \in KEYS |-> sliderDestroy(sliders[k])]
    /\ event' = NO_EVENT
    /\ UNCHANGED <<drag, sinceFlush, budget>>

CcvNext ==
    \/ CcvInput
    \/ CcvTrackClick
    \/ CcvThumbMouseDown
    \/ CcvMouseMove
    \/ CcvMouseUp
    \/ CcvTick
    \/ CcvTimerFire
    \/ CcvFlush
    \/ CcvSetValues
    \/ CcvGetValues
    \/ CcvDestroy

-----------------------------------------------------------------------------
(* Renderer2D and its components CIEBackground, Axes and Marker            *)
(* (unnamed/part_008, unnamed/part_012, src/components/Axes.ts, class      *)
(* Marker in createSlider.ts).  The layer is the sequence of its nodes;    *)
(* a config object is a function from its keys.                            *)

\* { ...a, ...b }
spreadMerge(a, b) ==
    [k \in DOMAIN a \cup DOMAIN b |-> IF k \in DOMAIN b THEN b[k] ELSE a[k]]

\* The empty object {}.
EMPTY_CONFIG == [k \in {} |-> 0]

\* new CIEBackground(), new Axes(), new Marker(): config = {}, initialized
\* = false.
newComponent == [made |-> TRUE, initialized |-> FALSE, config |-> EMPTY_CONFIG]

\* A component field of the renderer that is still null.
NO_COMPONENT == [made |-> FALSE, initialized |-> FALSE, config |-> EMPTY_CONFIG]

\* The defaults CIEBackground.init sets.
CIE_DEFAULTS ==
    [show |-> TRUE, brightness |-> 100, opacity |-> 100, boundaryLine |-> FALSE,
     gridSize |-> 200]

\* The defaults Axes.init sets.
AXES_DEFAULTS ==
    [show |-> TRUE, showLines |-> TRUE, showLabels |-> TRUE,
     lineStyle |-> [weight |-> 1, color |-> "#999", style |-> "dashed", dash |-> <<5, 5>>],
     labelStyle |-> [fontSize |-> 14, color |-> "#666", fontFamily |-> "Arial"]]

\* The defaults Marker.init sets.
MARKER_DEFAULTS ==
    [show |-> TRUE, shape |-> "circle", size |-> 6,
     border |-> [weight |-> 2, color |-> "#000", style |-> "solid"],
     showLabel |-> FALSE,
     labelStyle |-> [fontSize |-> 12, color |-> "#000", fontFamily |-> "Arial",
                     offsetX |-> 8, offsetY |-> -8]]

\* init, first part: if (!this.initialized) { this.config = { defaults,
\* ...config }; this.initialized = true }.
firstInit(c, defaults, config) ==
    IF ~c.initialized
    THEN [c EXCEPT !.config = spreadMerge(defaults, config), !.initialized = TRUE]
    ELSE c

\* config.key ? { ...existing, ...config.key } : existing, with existing =
\* this.config.key || {}.
deepMerge(current, config, key) ==
    LET existing == IF key \in DOMAIN current THEN current[key] ELSE EMPTY_CONFIG
    IN  IF key \in DOMAIN config THEN spreadMerge(existing, config[key]) ELSE existing

\* CIEBackground.init(layer, coordinateSystem, size, config).
cieInit(c, config) ==
    LET first == firstInit(c, CIE_DEFAULTS, config)
    IN  IF DOMAIN config # {}
        THEN [first EXCEPT !.config = spreadMerge(first.config, config)]
        ELSE first

\* Axes.init(layer, coordinateSystem, config).
axesInit(c, config) ==
    LET first == firstInit(c, AXES_DEFAULTS, config)
    IN  IF DOMAIN config # {}
        THEN [first EXCEPT !.config =
                 spreadMerge(spreadMerge(first.config, config),
                             [lineStyle |-> deepMerge(first.config, config, "lineStyle"),
                              labelStyle |-> deepMerge(first.config, config, "labelStyle")])]
        ELSE first

\* Marker.init(layer, coordinateSystem, config).
markerInit(c, config) ==
    LET first == firstInit(c, MARKER_DEFAULTS, config)
    IN  IF DOMAIN config # {}
        THEN [first EXCEPT !.config =
                 spreadMerge(spreadMerge(first.config, config),
                             [border |-> IF "border" \in DOMAIN config THEN config["border"]
                                         ELSE first.config["border"],
                              labelStyle |-> deepMerge(first.config, config, "labelStyle")])]
        ELSE first

\* updateConfig(config): this.config = { ...this.config, ...config }.
updateConfig(c, config) == [c EXCEPT !.config = spreadMerge(c.config, config)]

\* A node of the layer: its Konva class, the part that added it, and its
\* attribute isColorPoint.
node(className, by, isColorPoint) ==
    [className |-> className, by |-> by, isColorPoint |-> isColorPoint]

\* TRUE iff config[key] is there and true.
isSet(config, key) == key \in DOMAIN config /\ config[key] = TRUE

\* TRUE iff config[key] === false.
isFalse(config, key) == key \in DOMAIN config /\ config[key] = FALSE

\* CIEBackground.render: nothing when show is false, else the grid of
\* rects (one node here) and, when boundaryLine is set, the boundary line.
cieRender(c) ==
    IF isFalse(c.config, "show") THEN <<>>
    ELSE <<node("Rect", "cie", FALSE)>>
            \o (IF isSet(c.config, "boundaryLine") THEN <<node("Line", "cie", FALSE)>> ELSE <<>>)

\* Axes.render: nothing when show is false, else the two axis lines unless
\* showLines is false and the two labels unless showLabels is false.
axesRender(c) ==
    IF isFalse(c.config, "show") THEN <<>>
    ELSE (IF isFalse(c.config, "showLines") THEN <<>>
          ELSE <<node("Line", "axes", FALSE), node("Line", "axes", FALSE)>>)
            \o (IF isFalse(c.config, "showLabels") THEN <<>>
                ELSE <<node("Text", "axes", FALSE), node("Text", "axes", FALSE)>>)

\* Marker.createShape: the Konva class for config.shape, for the shapes
\* 'circle' and 'square'.
createShape(config) ==
    IF "shape" \notin DOMAIN config THEN <<>>
    ELSE IF config["shape"] = "circle" THEN <<node("Circle", "marker", FALSE)>>
    ELSE IF config["shape"] = "square" THEN <<node("Rect", "marker", FALSE)>>
    ELSE <<>>

RECURSIVE markerRender(_, _)
\* Marker.render for each point: nothing when show is false, else the shape
\* and, when showLabel is set and the point has a label, the label.
markerRender(c, points) ==
    IF points = <<>> THEN <<>>
    ELSE (IF isFalse(c.config, "show") THEN <<>>
          ELSE createShape(c.config)
                 \o (IF isSet(c.config, "showLabel") /\ Head(points).label # ""
                     THEN <<node("Text", "marker", FALSE)>> ELSE <<>>))
            \o markerRender(c, Tail(points))

RECURSIVE renderColorPoints(_, _)
\* renderColorPoints: per point a circle and, when the point has a label and
\* showLabels is not false, a text, both with isColorPoint set.
renderColorPoints(points, showLabels) ==
    IF points = <<>> THEN <<>>
    ELSE <<node("Circle", "points", TRUE)>>
            \o (IF Head(points).label # "" /\ showLabels
                THEN <<node("Text", "points", TRUE)>> ELSE <<>>)
            \o renderColorPoints(Tail(points), showLabels)

\* renderRgbChromaticity: the components are created when null, initialised
\* (CIEBackground with {}, Axes with its config or the renderer's defaults,
\* Marker with its config) and rendered.
renderRgbChromaticity(r, preset) ==
    LET cie == cieInit(IF r.cieBackground.made THEN r.cieBackground ELSE newComponent,
                       EMPTY_CONFIG)
        axes0 == IF r.axes.made THEN r.axes ELSE newComponent
        axesConfigToUse ==
            IF DOMAIN axes0.config # {} THEN axes0.config
            ELSE [show |-> r.config.showAxes, showLines |-> TRUE,
                  showLabels |-> r.config.showLabels]
        axes == axesInit(axes0, axesConfigToUse)
        marker0 == IF r.marker.made THEN r.marker ELSE newComponent
        marker == markerInit(marker0, marker0.config)
    IN  [r EXCEPT !.cieBackground = cie, !.axes = axes, !.marker = marker,
                  !.layer = r.layer \o cieRender(cie)
                               \o <<node("Line", "gamut", FALSE)>>
                               \o (IF r.config.showLabels
                                   THEN <<node("Text", "gamut", FALSE)>> ELSE <<>>)
                               \o axesRender(axes)
                               \o markerRender(marker, preset.points)]

\* renderHSL2D and renderHSLColorPoints: the hue wheel, and for a preset
\* with points the marker, created when null and initialised with {}.
renderHSL2D(r, preset) ==
    LET wheel == [r EXCEPT !.layer = r.layer \o <<node("Image", "wheel", FALSE)>>]
        marker == markerInit(IF r.marker.made THEN r.marker ELSE newComponent, EMPTY_CONFIG)
    IN  IF preset.points = <<>> THEN wheel
        ELSE [wheel EXCEPT !.marker = marker,
                           !.layer = wheel.layer \o markerRender(marker, preset.points)]

\* Renderer2D.render(preset): currentPreset = preset; the layer is cleared;
\* the diagram of the colour space; then the colour points, for RGB through
\* renderColorPoints.
r2Render(r, preset) ==
    LET cleared == [r EXCEPT !.currentPreset = preset, !.layer = <<>>]
    IN  IF preset.name = "RGB"
        THEN LET drawn == renderRgbChromaticity(cleared, preset)
             IN  [drawn EXCEPT !.layer = drawn.layer
                                  \o renderColorPoints(preset.points, r.config.showLabels)]
        ELSE renderHSL2D(cleared, preset)

\* Renderer2D.update: the nodes destroyed are those layer.find('Circle')
\* returns that have the attribute isColorPoint.
isExistingCircle(n) == n.className = "Circle" /\ n.isColorPoint

\* Renderer2D.update(points).
r2Update(r, points) ==
    IF r.initialised /\ Len(points) > 0
    THEN [r EXCEPT !.layer = SelectSeq(r.layer, LAMBDA n : ~isExistingCircle(n))
                                \o renderColorPoints(points, r.config.showLabels)]
    ELSE r

\* No preset rendered yet.
NO_CURRENT_PRESET == [name |-> "", points |-> <<>>]

\* updateCIEBackground / updateAxes / updateMarker: the component is created
\* when null, updateConfig(config), and the current preset is rendered again.
updateComponentConfig(r, which, config) ==
    LET c == IF r[which].made THEN r[which] ELSE newComponent
        updated == [r EXCEPT ![which] = updateConfig(c, config)]
    IN  IF r.currentPreset # NO_CURRENT_PRESET
        THEN r2Render(updated, r.currentPreset)
        ELSE updated

\* Bound: the nodes marked isColorPoint a layer holds before an update.
MaxPointNodes == 4

\* The points passed: with and without a label.
PointLists ==
    {<<>>,
     <<[color |-> "#ff0000", label |-> "Pure Red"]>>,
     <<[color |-> "#ff0000", label |-> "Pure Red"], [color |-> "#00ff00", label |-> ""]>>}

\* The presets rendered.
R2Presets == {[name |-> n, points |-> p] : n \in {"RGB", "HSL"}, p \in PointLists}

\* The configs passed to the update methods of each component.
ComponentConfigs ==
    [cieBackground |-> {[brightness |-> 50], [boundaryLine |-> TRUE]},
     axes |-> {[showLines |-> FALSE]},
     marker |-> {[shape |-> "square"]}]

\* The part of a component config no update has applied.
NOTHING_APPLIED ==
    [cieBackground |-> EMPTY_CONFIG, axes |-> EMPTY_CONFIG, marker |-> EMPTY_CONFIG]

\* new Renderer2D(): no stage, no layer, no components, no preset.
R2Init ==
    /\ renderer2D = [initialised |-> FALSE,
                     config |-> [showLabels |-> TRUE, showAxes |-> TRUE],
                     currentPreset |-> NO_CURRENT_PRESET,
                     cieBackground |-> NO_COMPONENT,
                     axes |-> NO_COMPONENT,
                     marker |-> NO_COMPONENT,
                     layer |-> <<>>]
    /\ applied = NOTHING_APPLIED
    /\ r2Call = [name |-> "new", points |-> <<>>, before |-> <<>>]

\* init(container, config): the stage and the layer are created and the
\* layer holds the background rect.
R2InitCall ==
    \E labels \in BOOLEAN :
        /\ ~renderer2D.initialised
        /\ renderer2D' = [renderer2D EXCEPT !.initialised = TRUE,
                                            !.config.showLabels = labels,
                                            !.layer = <<node("Rect", "background", FALSE)>>]
        /\ r2Call' = [name |-> "init", points |-> <<>>, before |-> renderer2D.layer]
        /\ UNCHANGED applied

\* render(preset) throws before init.
R2Render ==
    \E preset \in R2Presets :
        /\ renderer2D.initialised
        /\ renderer2D' = r2Render(renderer2D, preset)
        /\ r2Call' = [name |-> "render", points |-> preset.points, before |-> renderer2D.layer]
        /\ UNCHANGED applied

R2Update ==
    \E points \in PointLists :
        /\ Len(SelectSeq(renderer2D.layer, LAMBDA n : n.isColorPoint)) <= MaxPointNodes
        /\ renderer2D' = r2Update(renderer2D, points)
        /\ r2Call' = [name |-> "update", points |-> points, before |-> renderer2D.layer]
        /\ UNCHANGED applied

R2UpdateComponent(which) ==
    \E config \in ComponentConfigs[which] :
        /\ renderer2D' = updateComponentConfig(renderer2D, which, config)
        /\ applied' = [applied EXCEPT ![which] = spreadMerge(applied[which], config)]
        /\ r2Call' = [name |-> which, points |-> <<>>, before |-> renderer2D.layer]

R2UpdateCIEBackground == R2UpdateComponent("cieBackground")

R2UpdateAxes == R2UpdateComponent("axes")

R2UpdateMarker == R2UpdateComponent("marker")

R2Next ==
    \/ R2InitCall
    \/ R2Render
    \/ R2Update
    \/ R2UpdateCIEBackground
    \/ R2UpdateAxes
    \/ R2UpdateMarker

-----------------------------------------------------------------------------
(* Specifications                                                          *)

Init == ConvInit /\ PipInit /\ GradInit /\ HeapInit /\ VizInit /\ CcvInit /\ R2Init

SpecConv ==
    Init /\ [][ConvNext /\ UNCHANGED <<pipVars, gradVars, heapVars, vizVars, ccvVars, r2Vars>>]_vars

SpecTrip ==
    Init /\ [][TripNext /\ UNCHANGED <<pipVars, gradVars, heapVars, vizVars, ccvVars, r2Vars>>]_vars

SpecPip ==
    Init /\ [][PipNext /\ UNCHANGED <<convVars, gradVars, heapVars, vizVars, ccvVars, r2Vars>>]_vars

SpecGrad ==
    Init /\ [][GradNext /\ UNCHANGED <<convVars, pipVars, heapVars, vizVars, ccvVars, r2Vars>>]_vars

SpecHeap ==
    Init /\ [][HeapNext /\ UNCHANGED <<convVars, pipVars, gradVars, vizVars, ccvVars, r2Vars>>]_vars

SpecViz ==
    Init /\ [][VizNext /\ UNCHANGED <<convVars, pipVars, gradVars, heapVars, ccvVars, r2Vars>>]_vars

SpecCcv ==
    Init /\ [][CcvNext /\ UNCHANGED <<convVars, pipVars, gradVars, heapVars, vizVars, r2Vars>>]_vars

SpecR2 ==
    Init /\ [][R2Next /\ UNCHANGED <<convVars, pipVars, gradVars, heapVars, vizVars, ccvVars>>]_vars

-----------------------------------------------------------------------------
(* C1: xyzToXy returns (0,0) whenever X+Y+Z = 0 and otherwise the two      *)
(* quotients X/(X+Y+Z), Y/(X+Y+Z) (each quotient q satisfies               *)
(* |q * sum - X| < |sum| / ONE + 1 unit, i.e. it is the rounded quotient); *)
(* no division is evaluated with a zero divisor.                           *)
IsQuotient(q, a, b) ==
    /\ IsFinite(q)
    /\ Abs(Mul(q, b) - a) <= (Abs(b) \div ONE) + 1

C1_XyzToXy ==
    op = "xyzToXy" =>
        LET sum == args[1] + args[2] + args[3]
        IN  /\ dz = FALSE
            /\ sum = 0 => ret = <<0, 0>>
            /\ sum # 0 => /\ IsQuotient(ret[1], args[1], sum)
                          /\ IsQuotient(ret[2], args[2], sum)

\* xyzToXy was called with a zero sum of components that are not all zero.
C1_Witness ==
    /\ op = "xyzToXy"
    /\ args[1] + args[2] + args[3] = 0
    /\ args[1] # 0
    /\ ret = <<0, 0>>

-----------------------------------------------------------------------------
(* C2: for every input (x, y, Y), in range or not, xyToRgb returns three   *)
(* channels that are each an integer in 0..255.                            *)
C2_XyToRgbRange ==
    op = "xyToRgb" => \A i \in 1..3 : ret[i] \in 0..255

\* xyToRgb was called with a negative x and a negative luminance, went through
\* the matrix and produced a channel of each bound.
C2_Witness ==
    /\ op = "xyToRgb"
    /\ args[1] < 0
    /\ args[3] < 0
    /\ locals.lin # <<>>
    /\ \E i, j \in 1..3 : ret[i] = 0 /\ ret[j] = 255

-----------------------------------------------------------------------------
(* C3: in xyToRgb, when the largest linear channel exceeds 1 every channel *)
(* is the quotient of its value by that maximum (so no channel exceeds 1   *)
(* and the largest is output as 255); when the maximum is at most 1 the    *)
(* linear channels are unchanged.                                          *)
C3_ScaleByMax ==
    (op = "xyToRgb" /\ locals.lin # <<>>) =>
        LET lin == locals.lin
            max == Max3(lin[1], lin[2], lin[3])
        IN  /\ max > ONE =>
                \A i \in 1..3 :
                    /\ IsQuotient(locals.scaled[i], lin[i], max)
                    /\ locals.scaled[i] <= ONE
                    /\ clampLinear(locals.scaled[i]) <= ONE
                    /\ lin[i] = max => (locals.scaled[i] = ONE /\ ret[i] = 255)
            /\ max <= ONE => locals.scaled = lin

\* xyToRgb scaled down a colour whose largest channel exceeds 1 and which has
\* another positive channel, smaller than the largest.
C3_Witness ==
    /\ op = "xyToRgb"
    /\ locals.lin # <<>>
    /\ \E i, j \in 1..3 :
        /\ locals.lin[i] > ONE
        /\ locals.lin[j] > ONE
        /\ locals.lin[j] < locals.lin[i]
        /\ locals.scaled[j] < ONE

-----------------------------------------------------------------------------
(* C9: rgbToLinear maps each channel on its own: codes 0..10 by the linear *)
(* segment (v/255)/12.92, codes 11..255 by the power-law segment (whose    *)
(* result, encoded back by 1.055 * t^(1/2.4) - 0.055, gives v/255 again);  *)
(* 0 maps to 0, 255 to 1, and the map is non-decreasing over 0..255.       *)
PowerTol == 5 * 10

C9_RgbToLinear ==
    op = "rgbToLinear" =>
        \A i \in 1..3 :
            LET v == args[i]
                n == Div(v * ONE, 255 * ONE)
            IN  /\ (v <= 10) = (n <= LINEARIZE_THRESHOLD)
                /\ v <= 10 => IsQuotient(ret[i], n, 12920000)
                /\ v >= 11 =>
                     Abs(MulCoef(Pow(ret[i], 5, 12), 10550000) - 55000 - n) <= PowerTol
                /\ v = 0 => ret[i] = 0
                /\ v = MAX_CODE => ret[i] = ONE
                /\ v < MAX_CODE => ret[i] <= linearize((v + 1) * ONE)
                /\ v = 10 => ret[i] < linearize(11 * ONE)

\* rgbToLinear was called on the last code of the linear segment and the first
\* code of the power-law segment.
C9_Witness ==
    /\ op = "rgbToLinear"
    /\ args[1] = 10
    /\ args[2] = 11
    /\ ret[1] > 0
    /\ ret[2] > ret[1]

-----------------------------------------------------------------------------
(* C10 as amended: linearRgbToXyz is the matrix product scaled by 100: it  *)
(* maps (0,0,0) to (0,0,0) and the unit vectors to 100 times the matrix    *)
(* columns, is additive and homogeneous up to the rounding of the products *)
(* and maps linear white (1,1,1) to Y = 100.00001 (the Y row of the matrix *)
(* sums to 1.0000001).                                                     *)
LinTol == 9 * 10

WHITE == <<ONE, ONE, ONE>>

C10_LinearRgbToXyz ==
    op = "linearRgbToXyz" =>
        LET a == args[1]
            k == args[3]
        IN  /\ a = <<0, 0, 0>> => ret[1] = <<0, 0, 0>>
            /\ \A c \in 1..3 :
                 (a = [i \in 1..3 |-> IF i = c THEN ONE ELSE 0]) =>
                     ret[1] = [i \in 1..3 |-> 10 * RGB_TO_XYZ[i][c]]
            /\ \A i \in 1..3 :
                 /\ Abs(ret[3][i] - ret[1][i] - ret[2][i]) <= LinTol
                 /\ Abs(ret[4][i] - k * ret[1][i]) <= LinTol
            /\ a = WHITE => ret[1][2] = 100 * ONE + 10

\* linearRgbToXyz was called on white, on a second non-zero triple, on their
\* sum and on white doubled.
C10_Witness ==
    /\ op = "linearRgbToXyz"
    /\ args[1] = WHITE
    /\ args[2] = <<ONE \div 2, 0, ONE>>
    /\ args[3] = 2
    /\ ret[4][2] = 2 * ret[1][2]

\* C10 as stated: linearRgbToXyz maps linear white (1,1,1) to Y = 100.
C10_Original ==
    (op = "linearRgbToXyz" /\ args[1] = WHITE) => ret[1][2] = 100 * ONE

-----------------------------------------------------------------------------
(* C4: the containment test classifies the centroid of the RGB gamut       *)
(* triangle as inside the triangle, and classifies as outside (of the      *)
(* spectral locus and of the triangle) the point (2,2) and every point     *)
(* whose y is above the polygon's largest y or below its smallest y.       *)
MaxY(poly) == CHOOSE y \in {poly[k][2] : k \in 1..Len(poly)} :
                  \A k \in 1..Len(poly) : poly[k][2] <= y

MinY(poly) == CHOOSE y \in {poly[k][2] : k \in 1..Len(poly)} :
                  \A k \in 1..Len(poly) : poly[k][2] >= y

C4_Containment ==
    pc = "done" =>
        /\ (polygon = getRgbGamutVertices /\ point = Centroid) => inside
        /\ point = FarPoint => ~inside
        /\ (/\ polygon \in {getSpectralLocus, getRgbGamutVertices}
            /\ (point[2] > MaxY(polygon) \/ point[2] < MinY(polygon))) => ~inside

\* The test returned inside for the centroid of the RGB gamut triangle.
C4_Witness ==
    /\ pc = "done"
    /\ polygon = getRgbGamutVertices
    /\ point = Centroid
    /\ inside

-----------------------------------------------------------------------------
(* C5: the containment test visits every edge exactly once, the closing    *)
(* edge from the last vertex to the first included; an edge toggles the    *)
(* result only when exactly one of its endpoints has y strictly greater    *)
(* than the point's y, so horizontal and zero-length edges never toggle;   *)
(* and no division is evaluated with a zero divisor.                       *)
AllEdges(n) == [k \in 1..n |-> <<(k + n - 2) % n, k - 1>>]

C5_Edges ==
    /\ ~pdz
    /\ \A e \in toggled :
         LET vj == polygon[e[1] + 1]
             vi == polygon[e[2] + 1]
         IN  /\ (vi[2] > point[2]) # (vj[2] > point[2])
             /\ vi[2] # vj[2]
    /\ pc = "done" => visited = AllEdges(Len(polygon))

\* The test finished on the spectral locus for a point on the row of the
\* horizontal edges (y = 0.0048), with an odd number of toggles.
C5_Witness ==
    /\ pc = "done"
    /\ polygon = getSpectralLocus
    /\ point[2] = 4800
    /\ Len(visited) = 65
    /\ toggled # {}

-----------------------------------------------------------------------------
(* C6: computeDependentGradient returns a gradient (not null) exactly for  *)
(* the pairs HSL s, HSL l, HSV s, HSV v, LAB a, LAB b, LCH C, YCBCR cb and *)
(* YCBCR cr, the space name compared without regard to letter case and the *)
(* channel key compared exactly, and null for every other pair, also when  *)
(* the space name is missing or empty or the values map is missing.        *)
DEPENDENT_PAIRS ==
    { <<"HSL", "s">>, <<"HSL", "l">>, <<"HSV", "s">>, <<"HSV", "v">>,
      <<"LAB", "a">>, <<"LAB", "b">>, <<"LCH", "C">>,
      <<"YCBCR", "cb">>, <<"YCBCR", "cr">> }

\* The name a space text spells when letter case is disregarded ("" if none).
SpelledSpace(text) ==
    LET up == toUpperCase(text)
    IN  IF up = <<"H", "S", "L">> THEN "HSL"
        ELSE IF up = <<"H", "S", "V">> THEN "HSV"
        ELSE IF up = <<"L", "A", "B">> THEN "LAB"
        ELSE IF up = <<"L", "C", "H">> THEN "LCH"
        ELSE IF up = <<"Y", "C", "B", "C", "R">> THEN "YCBCR"
        ELSE ""

C6_DependentPairs ==
    gradientPc = "returned" =>
        LET colorSpace == gradientCall[1]
            channelKey == gradientCall[2]
        IN  /\ gradient.isNull <=>
                 ~(colorSpace.given
                     /\ <<SpelledSpace(colorSpace.text), channelKey>> \in DEPENDENT_PAIRS)
            /\ ~gradient.isNull => (gradient.type = "linear" /\ Len(gradient.stops) \in {2, 3})

\* A call for LCH with the key 'c' and no values map returned null.
C6_Witness ==
    /\ gradientPc = "returned"
    /\ toUpperCase(gradientCall[1].text) = <<"L", "C", "H">>
    /\ gradientCall[2] = "c"
    /\ ~gradientCall[3].given
    /\ gradient.isNull

-----------------------------------------------------------------------------
(* C7: for every hue h, computeDependentGradient('HSL', 's', {h}) returns  *)
(* exactly two stops, '#808080' at position 0 and the hex encoding of      *)
(* hslToRgb(h, 100, 50) at position 1; a missing h counts as 0, and no     *)
(* other entry of the values map changes the result.                       *)
C7_HslSaturation ==
    (/\ gradientPc = "returned"
     /\ gradientCall[1].given
     /\ toUpperCase(gradientCall[1].text) = <<"H", "S", "L">>
     /\ gradientCall[2] = "s") =>
        LET v == IF gradientCall[3].given THEN gradientCall[3].map ELSE <<>>
            h == IF "h" \in DOMAIN v THEN v["h"] ELSE 0
            rgb == hslToRgb(h, 100 * ONE, 50 * ONE)
        IN  /\ gradient.stops =
                 << [pos |-> 0, color |-> "#808080"],
                    [pos |-> ONE, color |-> rgbToHex(rgb[1] * ONE, rgb[2] * ONE, rgb[3] * ONE)] >>
            /\ h = 0 => gradient.stops[2].color = "#ff0000"
            /\ h = 120 * ONE => gradient.stops[2].color = "#00ff00"

\* HSL s was called with hue 240 and other entries in the map, and the last
\* stop is blue.
C7_Witness ==
    /\ gradientPc = "returned"
    /\ gradientCall[1].text = <<"h", "s", "l">>
    /\ gradientCall[2] = "s"
    /\ gradientCall[3].given
    /\ DOMAIN gradientCall[3].map = {"h", "s", "l"}
    /\ gradientCall[3].map["h"] = 240 * ONE
    /\ gradient.stops[2] = [pos |-> ONE, color |-> "#0000ff"]

-----------------------------------------------------------------------------
-----------------------------------------------------------------------------
(* C11: for colour codes r, g, b in 0..255, hslToRgb(rgbToHsl(r, g, b))    *)
(* and hsvToRgb(rgbToHsv(r, g, b)) differ from (r, g, b) by at most 1 in   *)
(* each channel.                                                           *)
C11_RoundTrip ==
    op = "roundTrip" =>
        \A way \in 1..2, k \in 1..3 : Abs(ret[way][k] - args[k]) <= 1

\* The round trips of a colour whose hue lies in the last sextant (red is
\* the largest channel and g < b) came back.
C11_Witness ==
    /\ op = "roundTrip"
    /\ args = <<200, 100, 128>>
    /\ locals.hsl[1] > 300 * ONE
    /\ ret[1] = ret[2]

-----------------------------------------------------------------------------
(* C12: setConfig(config) with config.mode different from the mode in      *)
(* effect before the call reinitialises the renderer for the new mode, and *)
(* after any sequence of calls the kind of the active renderer equals      *)
(* getConfig().mode.  The code does not do this: C12_Original is violated. *)
(* What the code does is C12_SetConfigKeepsRenderer: setConfig never       *)
(* touches the renderer, whatever mode it is given.                        *)
activeKind(v) == v.renderers[v.renderer].kind

C12_Original ==
    /\ visualizer.renderer # 0 => activeKind(visualizer) = visualizer.mode
    /\ (/\ visualizer.called = "setConfig"
        /\ visualizer.arg.mode # "absent"
        /\ visualizer.arg.mode # prior.mode
        /\ prior.renderer # 0)
           => (/\ visualizer.renderer # prior.renderer
               /\ activeKind(visualizer) = visualizer.arg.mode)

C12_SetConfigKeepsRenderer ==
    visualizer.called = "setConfig" =>
        /\ visualizer.renderer = prior.renderer
        /\ visualizer.renderers = prior.renderers
        /\ visualizer.log = <<>>
        /\ visualizer.thrown = "none"

\* setConfig was given a mode other than the one in effect; the renderer is
\* the one of before, of the other kind than the mode now configured.
C12_Witness ==
    /\ visualizer.called = "setConfig"
    /\ visualizer.arg.mode = "2d"
    /\ prior.mode = "3d"
    /\ visualizer.mode = "2d"
    /\ visualizer.renderer = prior.renderer
    /\ activeKind(visualizer) = "3d"

-----------------------------------------------------------------------------
(* C13: render(preset) with preset.config.mode set and different from      *)
(* config.mode, on a visualizer that has a renderer, sets config.mode,     *)
(* destroys the old renderer once, creates and initialises the renderer of *)
(* the new mode, then records the preset and renders it on the new         *)
(* renderer, in this order; never are two renderers live at once.          *)
C13_RenderModeSwitch ==
    /\ \A k \in 1..Len(visualizer.log) : visualizer.log[k].live <= 1
    /\ (/\ visualizer.called = "render"
        /\ visualizer.arg.mode # "absent"
        /\ visualizer.arg.mode # prior.mode
        /\ prior.renderer # 0)
           => LET old == prior.renderer
                  new == visualizer.renderer
              IN  /\ new = Len(prior.renderers) + 1
                  /\ [k \in 1..Len(visualizer.log) |-> <<visualizer.log[k].ev, visualizer.log[k].id>>]
                         = << <<"mode", 0>>, <<"destroy", old>>, <<"create", new>>,
                              <<"init", new>>, <<"preset", 0>>, <<"render", new>> >>
                  /\ visualizer.mode = visualizer.arg.mode
                  /\ visualizer.renderers[old].destroyed = prior.renderers[old].destroyed + 1
                  /\ visualizer.renderers[old].destroyed = 1
                  /\ visualizer.renderers[new].kind = visualizer.arg.mode
                  /\ visualizer.renderers[new].attached
                  /\ visualizer.renderers[new].rendered = visualizer.arg
                  /\ visualizer.currentPreset = visualizer.arg

\* A 2D preset was rendered on a visualizer constructed in 3D mode.
C13_Witness ==
    /\ visualizer.called = "render"
    /\ visualizer.arg.mode = "2d"
    /\ prior.mode = "3d"
    /\ prior.renderer = 1
    /\ visualizer.renderer = 2
    /\ visualizer.renderers[2].rendered.name = "p"

-----------------------------------------------------------------------------
(* C14: destroy() destroys the renderer (once), disconnects the resize     *)
(* observer and sets currentPreset to null; after it render, update and    *)
(* resize throw 'Renderer not initialized' and change nothing, and         *)
(* handleResize, the update* component methods and destroy do nothing and  *)
(* do not throw.                                                           *)
fieldsOf(v) == [v EXCEPT !.log = <<>>, !.thrown = "none", !.called = "", !.arg = NO_PRESET]

C14_AfterDestroy ==
    /\ \A k \in 1..Len(visualizer.renderers) : visualizer.renderers[k].destroyed <= 1
    /\ (visualizer.called = "destroy" /\ prior.container) =>
           /\ visualizer.renderer = 0
           /\ visualizer.renderers[prior.renderer].destroyed = 1
           /\ ~visualizer.renderers[prior.renderer].attached
           /\ ~visualizer.resizeObserver
           /\ visualizer.disconnects = 1
           /\ visualizer.currentPreset = NO_PRESET
           /\ visualizer.thrown = "none"
    /\ (~prior.container /\ visualizer.called \in {"render", "update", "resize"}) =>
           /\ visualizer.thrown = "Renderer not initialized"
           /\ fieldsOf(visualizer) = fieldsOf(prior)
    /\ (~prior.container /\ visualizer.called \in {"handleResize", "updateComponent", "destroy"}) =>
           /\ visualizer.thrown = "none"
           /\ visualizer.log = <<>>
           /\ fieldsOf(visualizer) = fieldsOf(prior)

\* render was called after destroy, on a visualizer that had switched
\* renderers before.
C14_Witness ==
    /\ ~prior.container
    /\ visualizer.called = "render"
    /\ visualizer.thrown = "Renderer not initialized"
    /\ Len(visualizer.renderers) = 2
    /\ visualizer.renderers[2].destroyed = 1

\* The number of calls of fn made by the last step.
callsOf(fn) == Cardinality({i \in 1..Len(event.calls) : event.calls[i][1] = fn})

\* C15: setValues invokes neither onChange nor onChannelChange and starts no
\* commit timer and no animation frame, whether the host calls it or the
\* demo's onChange handler does during a flush; a flush in the demo wiring
\* makes exactly one updatePoint call and leaves no frame pending.
C15_SetValuesSilent ==
    /\ event.by = "setValues" =>
          /\ callsOf("onChange") = 0
          /\ callsOf("onChannelChange") = 0
          /\ callsOf("sliderOnChange") = 0
          /\ event.started = {}
    /\ (event.by = "flush" /\ ccv.wired) =>
          /\ callsOf("updatePoint") = 1
          /\ callsOf("setValues") = 1
          /\ callsOf("onChange") = 1
          /\ callsOf("onChannelChange") = 0
          /\ event.started = {}
          /\ ccv.frames = {}
          /\ ccv.rafId = 0

\* A flush in the demo wiring after a commit of s, while a commit timer of
\* another slider is still pending.
C15_Witness ==
    /\ event.by = "flush"
    /\ ccv.wired
    /\ "s" \in event.committed
    /\ \E k \in KEYS : sliders[k].timeouts # {}

\* C16: a slider's onChange is invoked by its commit timer only; a
\* user-originated change sets the local value at once, invokes nothing and
\* leaves exactly one timer of the slider pending, due a full delay later; no
\* slider ever has two timers pending; the timer fires a full delay after the
\* last change of the burst, invokes onChange once with the value the slider
\* has then, and leaves no timer of the slider behind.
C16_CommitTimer ==
    /\ callsOf("sliderOnChange") > 0 => event.by = "timer"
    /\ \A k \in KEYS : Cardinality(sliders[k].timeouts) <= 1
    /\ event.by = "change" =>
          LET s == sliders[event.key]
              ch == CHANNELS[event.key]
          IN  /\ s.value = clamp(event.arg, ch.min, ch.max)
              /\ event.calls = <<>>
              /\ s.timeouts = {[id |-> s.commitTimeoutId, left |-> DELAY_TICKS]}
              /\ s.age = 0
    /\ event.by = "timer" =>
          LET s == sliders[event.key]
          IN  /\ callsOf("sliderOnChange") = 1
              /\ event.burst >= 1
              /\ s.age = DELAY_TICKS
              /\ event.arg = s.value
              /\ ccv.values[event.key] = s.value
              /\ s.timeouts = {}

\* The commit that ends a burst of two changes of one slider.
C16_Witness ==
    /\ event.by = "timer"
    /\ event.burst = 2
    /\ ~ccv.destroyed

\* C17: once the visualizer is destroyed, no step invokes onChange or
\* onChannelChange.
C17_Original ==
    ccv.destroyed => callsOf("onChange") = 0 /\ callsOf("onChannelChange") = 0

\* C17, what destroy does guarantee: a commit after destroy comes from a
\* thumb drag that outlived it (the timer was started after destroy), and a
\* flush after destroy from a frame requested by a commit.
C17_AfterDestroy ==
    ccv.destroyed =>
        /\ event.by = "timer" => event.key \in DraggedKeys
        /\ \A k \in KEYS \ DraggedKeys : sliders[k].timeouts = {}
        /\ event.by = "flush" => event.committed # {}

\* onChannelChange is invoked after destroy.
C17_Witness ==
    /\ ccv.destroyed
    /\ callsOf("onChannelChange") = 1

\* TRUE iff the last step called updateGradient() of slider k.
refreshed(k) == \E i \in 1..Len(event.calls) : event.calls[i] = <<"updateGradient", k>>

\* C18: a flush calls updateGradient() of every slider whose channel
\* depends on a channel that committed since the previous flush.
C18_Original ==
    event.by = "flush" =>
        \A k \in KEYS :
            CHANNELS[k].dependsOn \cap event.committed # {} => refreshed(k)

\* C18, what the flush does guarantee: the sliders that depend on the
\* channel that committed last are refreshed, and that channel is one of
\* those that committed since the previous flush.
C18_LastKeyOnly ==
    event.by = "flush" =>
        /\ event.key \in event.committed
        /\ \A k \in KEYS : event.key \in CHANNELS[k].dependsOn => refreshed(k)

\* h and v committed before the same frame, v last: the flush refreshes no
\* slider, though s and v depend on h.
C18_Witness ==
    /\ event.by = "flush"
    /\ event.committed = {"h", "v"}
    /\ event.key = "v"
    /\ ~refreshed("s")
    /\ ~refreshed("v")

\* C19: at most one animation frame is pending, and it is the one rafId
\* names; a commit invokes onChannelChange once, at once, and no onChange,
\* and leaves a frame pending; every commit not yet flushed is covered by
\* the pending frame; a flush invokes onChange once, with a copy of the
\* values current at that time, and leaves no frame pending; what the host
\* writes into that copy or into the result of getValues() does not reach
\* the visualizer's values.
C19_SingleFlush ==
    /\ Cardinality(ccv.frames) <= 1
    /\ ccv.frames = IF ccv.rafId = 0 THEN {} ELSE {ccv.rafId}
    /\ sinceFlush # {} => ccv.frames # {}
    /\ event.by = "timer" =>
          /\ event.calls = <<<<"sliderOnChange", event.key>>, <<"onChannelChange", event.key>>>>
          /\ ccv.frames # {}
          /\ event.key \in sinceFlush
          /\ ccv.pendingChangedKey = event.key
    /\ event.by = "flush" =>
          /\ callsOf("onChange") = 1
          /\ event.calls[1] = <<"onChange", "">>
          /\ event.committed # {}
          /\ event.received.content = event.before
          /\ ~event.received.shared
          /\ ccv.values = event.before
          /\ ccv.frames = {}
          /\ sinceFlush = {}
    /\ event.by = "getValues" =>
          /\ event.received.content = event.before
          /\ ~event.received.shared
          /\ ccv.values = event.before

\* One flush that covers the commits of two channels.
C19_Witness ==
    /\ event.by = "flush"
    /\ event.committed = {"h", "s"}
    /\ callsOf("onChange") = 1

\* TRUE iff v lies in [channel.min, channel.max] of channel k.
inRange(k, v) == v # NAN /\ CHANNELS[k].min <= v /\ v <= CHANNELS[k].max

\* C20: the value of every slider lies in [channel.min, channel.max].
C20_Original == \A k \in KEYS : inRange(k, sliders[k].value)

\* C20, what clamp does guarantee: a slider's value is in range or NaN; a
\* change to a value that is not NaN, infinite ones included, leaves the
\* nearer bound or the value itself; a slider created without an initial
\* value starts at min, and one created with a value out of range at the
\* nearer bound.
C20_ClampedUnlessNaN ==
    /\ \A k \in KEYS : sliders[k].value = NAN \/ inRange(k, sliders[k].value)
    /\ (event.by = "change" /\ event.arg # NAN) =>
          LET ch == CHANNELS[event.key]
              value == sliders[event.key].value
          IN  /\ inRange(event.key, value)
              /\ event.arg > ch.max => value = ch.max
              /\ event.arg < ch.min => value = ch.min
              /\ inRange(event.key, event.arg) => value = event.arg
    /\ \A k \in KEYS :
          /\ createChannelSlider(CHANNELS[k], <<>>).value = CHANNELS[k].min
          /\ createChannelSlider(CHANNELS[k], <<CHANNELS[k].max + 20>>).value = CHANNELS[k].max
          /\ createChannelSlider(CHANNELS[k], <<CHANNELS[k].min - 20>>).value = CHANNELS[k].min

\* A pointer event on a track of width 0, at its left edge, left the s
\* slider with the value NaN.
C20_Witness ==
    /\ event.by = "change"
    /\ event.key = "s"
    /\ event.arg = NAN
    /\ sliders["s"].value = NAN

-----------------------------------------------------------------------------
\* TRUE iff the last call of xyToRgb had y = 0 or x + y > 1.
edgeCase == args[2] = 0 \/ args[1] + args[2] > ONE

\* C22 as stated: xyToRgb returns (128, 128, 128) exactly when y = 0 or
\* x + y > 1.
C22_Original ==
    op = "xyToRgb" => (ret = <<128, 128, 128>> <=> edgeCase)

\* C22: xyToRgb takes the early return of (128, 128, 128), before any
\* quotient is evaluated, exactly when y = 0 or x + y > 1, so no division by
\* zero is ever evaluated; every other input, negative y included, goes
\* through the matrix, the scaling, the gamma encoding and the clamp, whose
\* result may itself be (128, 128, 128).
C22_EarlyReturn ==
    op = "xyToRgb" =>
        /\ ~dz
        /\ edgeCase <=> locals.lin = <<>>
        /\ edgeCase => ret = <<128, 128, 128>>
        /\ ~edgeCase =>
              /\ locals.lin = xyToLinearRgb(args[1], args[2], args[3])
              /\ locals.scaled = scaleToGamut(locals.lin)
              /\ \A i \in 1..3 :
                    ret[i] = normalize(gammaCorrect(clampLinear(locals.scaled[i])))

\* xyToRgb was called with a negative y and went through the matrix.
C22_Witness ==
    /\ op = "xyToRgb"
    /\ args[2] < 0
    /\ args[1] + args[2] <= ONE
    /\ locals.lin # <<>>
    /\ ret # <<128, 128, 128>>

-----------------------------------------------------------------------------
\* The positions of the stops of the gradient returned last.
positions == [i \in 1..Len(gradient.stops) |-> gradient.stops[i].pos]

\* C23: a result of computeDependentGradient that is not null has type
\* 'linear' and stops at the positions 0, 1 or 0, 0.5, 1; called with the
\* name of a space of COLOR_SPACES, in any letter case, and one of its
\* channels, it returns 2 stops for a dependent2 channel, 3 stops for a
\* dependent3 channel and null for a channel of any other type.
C23_StopsMatchType ==
    gradientPc = "returned" =>
        /\ ~gradient.isNull =>
              /\ gradient.type = "linear"
              /\ positions \in {<<0, ONE>>, <<0, ONE \div 2, ONE>>}
              /\ \A i \in 1..(Len(positions) - 1) : positions[i] < positions[i + 1]
        /\ \A space \in DOMAIN COLOR_SPACES :
              (/\ gradientCall[1].given
               /\ toUpperCase(gradientCall[1].text) = SPACE_KEYS[space]
               /\ gradientCall[2] \in DOMAIN COLOR_SPACES[space]) =>
                  LET type == COLOR_SPACES[space][gradientCall[2]]
                  IN  /\ type = "dependent2" => (~gradient.isNull /\ Len(gradient.stops) = 2)
                      /\ type = "dependent3" => (~gradient.isNull /\ Len(gradient.stops) = 3)
                      /\ type \notin {"dependent2", "dependent3"} => gradient.isNull

\* The circularDependent channel h of LCh got null, with a full values map.
C23_Witness ==
    /\ gradientPc = "returned"
    /\ gradientCall[1].text = <<"L", "C", "h">>
    /\ gradientCall[2] = "h"
    /\ gradientCall[3].given
    /\ gradientCall[3].map # <<>>
    /\ gradient.isNull

-----------------------------------------------------------------------------
\* TRUE iff no commit timer and no animation frame is pending.
quiescent == ccv.frames = {} /\ \A k \in KEYS : sliders[k].timeouts = {}

\* TRUE iff the value the user set last on slider k is the slider's value
\* and the visualizer's.
kept(k) ==
    sliders[k].userValue # UNSET =>
        /\ sliders[k].value = sliders[k].userValue
        /\ ccv.values[k] = sliders[k].userValue

\* C25: in the demo wiring, once all commit timers and flushes have run,
\* the value the user set last on a slider is that slider's value and the
\* visualizer's.
C25_Original ==
    (ccv.wired /\ ~ccv.destroyed /\ quiescent) => \A k \in KEYS : kept(k)

\* C25, what holds: without the call back into setValues the values the
\* user set last are kept once everything pending has run.
C25_WithoutWiring ==
    (~ccv.wired /\ ~ccv.destroyed /\ quiescent) => \A k \in KEYS : kept(k)

\* In the demo wiring everything pending has run, the user has set h to
\* 180 last, and both the h slider and the visualizer hold 0.
C25_Witness ==
    /\ ccv.wired
    /\ ~ccv.destroyed
    /\ quiescent
    /\ sliders["h"].userValue = 180
    /\ sliders["h"].value = 0
    /\ ccv.values["h"] = 0

\* The nodes of a layer that have the class and are marked isColorPoint.
colorPointNodes(layer, className) ==
    SelectSeq(layer, LAMBDA n : n.className = className /\ n.isColorPoint)

\* The nodes of a layer that are not marked isColorPoint.
otherNodes(layer) == SelectSeq(layer, LAMBDA n : ~n.isColorPoint)

\* C24 as stated: on an initialised renderer, after update(points) with a
\* non-empty list the layer holds
\* exactly one colour-point circle per point of that call and at most one
\* colour-point label per point, every other node is left in place, and
\* update([]) changes nothing.
C24_Original ==
    (r2Call.name = "update" /\ renderer2D.initialised) =>
        IF r2Call.points = <<>>
        THEN renderer2D.layer = r2Call.before
        ELSE /\ Len(colorPointNodes(renderer2D.layer, "Circle")) = Len(r2Call.points)
             /\ Len(colorPointNodes(renderer2D.layer, "Text")) <= Len(r2Call.points)
             /\ otherNodes(renderer2D.layer) = otherNodes(r2Call.before)

\* C24, the part the code keeps: on an initialised renderer, after
\* update(points) with a non-empty list the layer holds exactly one colour-point circle per point, the labels the
\* layer held before are all still there, every other node is left in place,
\* and update([]) changes nothing.
C24_CirclesOnly ==
    (r2Call.name = "update" /\ renderer2D.initialised) =>
        IF r2Call.points = <<>>
        THEN renderer2D.layer = r2Call.before
        ELSE /\ Len(colorPointNodes(renderer2D.layer, "Circle")) = Len(r2Call.points)
             /\ Len(colorPointNodes(renderer2D.layer, "Text"))
                   >= Len(colorPointNodes(r2Call.before, "Text"))
             /\ otherNodes(renderer2D.layer) = otherNodes(r2Call.before)

\* An update with a non-empty list has left more colour-point labels on the
\* layer than it was given points.
C24_Witness ==
    /\ r2Call.name = "update"
    /\ r2Call.points # <<>>
    /\ colorPointNodes(r2Call.before, "Text") # <<>>
    /\ Len(colorPointNodes(renderer2D.layer, "Text")) > Len(r2Call.points)

\* The components of the renderer.
COMPONENTS == {"cieBackground", "axes", "marker"}

\* TRUE iff getConfig() of the component returns everything its update
\* method has applied.
inEffect(which) ==
    \A k \in DOMAIN applied[which] :
        /\ k \in DOMAIN renderer2D[which].config
        /\ renderer2D[which].config[k] = applied[which][k]

\* TRUE iff the layer holds a node of the class added by the part.
drawn(className, by) ==
    \E i \in 1..Len(renderer2D.layer) :
        renderer2D.layer[i].className = className /\ renderer2D.layer[i].by = by

\* C21 as stated: after a render(preset), whatever the order of the update
\* and render calls before it, each component's getConfig() returns the
\* config applied through updateCIEBackground, updateAxes or updateMarker,
\* and the chromaticity diagram is drawn with it.
C21_Original ==
    r2Call.name = "render" =>
        /\ \A which \in COMPONENTS : inEffect(which)
        /\ (renderer2D.currentPreset.name = "RGB"
              /\ isSet(applied["cieBackground"], "boundaryLine"))
              => drawn("Line", "cie")

\* C21, the part the code keeps: once a component has been initialised by a
\* render, a config that is in effect stays in effect through every call,
\* and a config applied by its update method is in effect after the call.
C21_OnceInitialized ==
    [][\A which \in COMPONENTS :
          (renderer2D[which].initialized /\ inEffect(which)) => inEffect(which)']_vars

\* A render has dropped a config applied before the component was first
\* initialised.
C21_Witness ==
    /\ r2Call.name = "render"
    /\ renderer2D.currentPreset.name = "RGB"
    /\ isSet(applied["cieBackground"], "boundaryLine")
    /\ ~inEffect("cieBackground")
    /\ ~drawn("Line", "cie")

====
